---------------------------- MODULE Spec2Model ----------------------------
(***************************************************************************)
(* A model of the linalg-to-xsmm lowering helpers and of the TPP matchers  *)
(* of tpp-sandbox:                                                         *)
(*   lib/TPP/ConvertLinalgToXsmm.cpp   getUnaryInfo, replaceOpWithUnary,   *)
(*                                     getBroadCastFromMap, the patterns   *)
(*   lib/TPP/Dialect/Tpp/TppUtils.cpp  isAddMul, hasMatmulBody, isTppMatmul*)
(* Pure functions are operators; every specification draws the inputs of   *)
(* the function it is about from bounded sets and applies the function in  *)
(* an action.                                                              *)
(***************************************************************************)
EXTENDS Integers, Sequences, FiniteSets, TLC

VARIABLES
    pc,          \* position of the step under study
    map,         \* the AffineMap handed to getBroadCastFromMap
    broadCast,   \* what getBroadCastFromMap returned
    unaryFlag,   \* what getBroadCastUnaryFlagFromMap returned
    input,       \* the input Value handed to getUnaryInfo
    output,      \* the output Value handed to getUnaryInfo
    unaryInfo,   \* what getUnaryInfo returned
    ops,         \* the operations of the function body, in program order
    matched,     \* the position of the operation the last pattern was tried on
    result,      \* what the last matchAndRewrite returned
    call,        \* the arguments of the last call of replaceOpWithUnary
    numCreated,  \* how many dispatch results have been created
    linalgGeneric, \* the linalg.generic handed to isTppMatmul
    tppMatmul,   \* what isTppMatmul returned
    matmulBody,  \* what hasMatmulBody returned
    func,        \* a function body whose last operation is the linalg.generic
                 \* handed to the matchers
    verdict,     \* what each matcher returned for that linalg.generic
    firstRun,    \* the library_call names the first run of the mapping left
    packOp,      \* a linalgx.pack: source shape, descriptor, padding value or not
    packed,      \* the packed type and the packed elements
    unpacked,    \* the type and the elements linalgx.unpack gives back
    driver,      \* the greedy pattern driver: worklist, changed flag, iteration
    handles,     \* the transform schedule: payload and handle states
    verified,    \* what the verifier of a pack or unpack returned
    stack        \* the calls of isZeroTensor in progress

broadcastVars == <<map, broadCast, unaryFlag>>
unaryVars == <<input, output, unaryInfo>>
rewriteVars == <<ops, matched, result, call, numCreated>>
matmulVars == <<linalgGeneric, tppMatmul, matmulBody>>
matcherVars == <<func, verdict>>
tagVars == <<firstRun>>
packVars == <<packOp, packed, unpacked>>
lateVars == <<driver, handles, verified, stack>>
extVars == <<matcherVars, tagVars, packVars, lateVars>>
vars == <<pc, broadcastVars, unaryVars, rewriteVars, matmulVars, extVars>>

\* The value of a variable that a specification does not use.
Idle == "idle"

matcherIdle == func = Idle /\ verdict = Idle
tagIdle == firstRun = Idle
packIdle == packOp = Idle /\ packed = Idle /\ unpacked = Idle
lateIdle == driver = Idle /\ handles = Idle /\ verified = Idle /\ stack = Idle
ExtIdle == matcherIdle /\ tagIdle /\ packIdle /\ lateIdle

(***************************************************************************)
(* Affine maps (mlir::AffineMap).  A map has numDims dimensions and        *)
(* numSymbols symbols and a list of result expressions.  An expression is  *)
(* a dimension d_p, a symbol s_p, an integer constant or a compound        *)
(* expression (kind "bin", such as d0 + d1) that is none of these.         *)
(***************************************************************************)
MaxDims == 3
MaxSyms == 1
MaxResults == 3

DimExpr(p) == [k |-> "dim", p |-> p]
SymExpr(p) == [k |-> "sym", p |-> p]
ConstExpr(c) == [k |-> "const", p |-> c]
BinExpr == [k |-> "bin", p |-> 0]

\* The expressions that may appear in a map with nd dimensions and ns symbols.
ExprsOf(nd, ns) ==
    {DimExpr(p) : p \in 0..(nd - 1)} \cup {SymExpr(p) : p \in 0..(ns - 1)}
        \cup {ConstExpr(0), ConstExpr(1)}
        \cup (IF nd + ns > 0 THEN {BinExpr} ELSE {})

SeqsUpTo(S, n) == UNION {[1..l -> S] : l \in 0..n}

AffineMaps ==
    UNION {{[numDims |-> nd, numSymbols |-> ns, results |-> r] :
                r \in SeqsUpTo(ExprsOf(nd, ns), MaxResults)} :
           nd \in 0..MaxDims, ns \in 0..MaxSyms}

getNumResults(m) == Len(m.results)
getNumDims(m) == m.numDims
getNumSymbols(m) == m.numSymbols
\* AffineMap::getNumInputs counts the dimensions and the symbols.
getNumInputs(m) == m.numDims + m.numSymbols

\* AffineMap::insertResult(expr, pos) with pos = 0.
insertResultFront(m, e) == [m EXCEPT !.results = <<e>> \o m.results]

\* AffineMap::isProjectedPermutation(allowZeroInResults): no symbols, no more
\* results than inputs, every result a dimension that appears at most once or,
\* when allowed, the constant zero.
isProjectedPermutation(m, allowZeroInResults) ==
    /\ getNumSymbols(m) = 0
    /\ getNumResults(m) <= getNumInputs(m)
    /\ \A i \in 1..Len(m.results) :
          LET e == m.results[i] IN
          IF e.k = "dim"
          THEN \A j \in 1..(i - 1) : m.results[j] # e
          ELSE allowZeroInResults /\ e.k = "const" /\ e.p = 0

\* AffineMap::isMinorIdentityWithBroadcasting: every result is the constant 0
\* (a broadcast dimension) or the input dimension of its own position in the
\* suffix of the dimensions.
isMinorIdentityWithBroadcasting(m) ==
    /\ getNumDims(m) >= getNumResults(m)
    /\ LET suffixStart == getNumDims(m) - getNumResults(m) IN
       \A i \in 1..Len(m.results) :
          LET e == m.results[i] IN
          \/ e.k = "const" /\ e.p = 0
          \/ e.k = "dim" /\ e.p = suffixStart + (i - 1)

\* The out-parameter broadcastedDims: the result positions (from 0) holding 0.
broadcastedDimsOf(m) ==
    {i - 1 : i \in {j \in 1..Len(m.results) :
                       m.results[j].k = "const" /\ m.results[j].p = 0}}

\* The loop of getBroadCastFromMap that extends the map with leading zeros.
RECURSIVE extendWithLeadingZeros(_)
extendWithLeadingZeros(m) ==
    IF getNumResults(m) # getNumInputs(m)
    THEN extendWithLeadingZeros(insertResultFront(m, ConstExpr(0)))
    ELSE m

Failure == "failure"

getBroadCastFromMapDropGuard(m) ==
    IF getNumResults(m) > getNumInputs(m) \/ getNumInputs(m) # 2
       \/ getNumSymbols(m) # 0
    THEN Failure
    ELSE IF getNumResults(m) = 0 THEN "SCALAR"
    ELSE LET ext == extendWithLeadingZeros(m) IN
         IF ~isProjectedPermutation(ext, TRUE) THEN Failure
         ELSE IF ~isMinorIdentityWithBroadcasting(ext) THEN Failure
         ELSE IF broadcastedDimsOf(ext) = {} THEN "NONE"
         ELSE IF 0 \in broadcastedDimsOf(ext) THEN "COL"
         ELSE "ROW"

getBroadCastFromMapSwapped(m) ==
    IF getNumResults(m) > getNumInputs(m) \/ getNumInputs(m) # 2
       \/ getNumSymbols(m) # 0
    THEN Failure
    ELSE IF getNumResults(m) = 0 THEN "SCALAR"
    ELSE LET ext == extendWithLeadingZeros(m) IN
         IF ~isProjectedPermutation(ext, TRUE) THEN Failure
         ELSE IF ~isMinorIdentityWithBroadcasting(ext) THEN Failure
         ELSE IF broadcastedDimsOf(ext) = {} THEN "NONE"
         ELSE IF Cardinality(broadcastedDimsOf(ext)) # 1 THEN Failure
         ELSE IF 0 \in broadcastedDimsOf(ext) THEN "ROW"
         ELSE "COL"

\* getBroadCastFromMap: the BroadCastType of a map, or failure.
getBroadCastFromMap(m) ==
    IF getNumResults(m) > getNumInputs(m) \/ getNumInputs(m) # 2
       \/ getNumSymbols(m) # 0
    THEN Failure
    ELSE IF getNumResults(m) = 0 THEN "SCALAR"
    ELSE LET ext == extendWithLeadingZeros(m) IN
         IF ~isProjectedPermutation(ext, TRUE) THEN Failure
         ELSE IF ~isMinorIdentityWithBroadcasting(ext) THEN Failure
         ELSE IF broadcastedDimsOf(ext) = {} THEN "NONE"
         ELSE IF Cardinality(broadcastedDimsOf(ext)) # 1 THEN Failure
         ELSE IF 0 \in broadcastedDimsOf(ext) THEN "COL"
         ELSE "ROW"

\* getBroadCastUnaryFlagFromMap: the xsmm::UnaryFlags of a map, or failure.
getBroadCastUnaryFlagFromMap(m) ==
    LET broadCastType == getBroadCastFromMap(m) IN
    IF broadCastType = Failure THEN Failure
    ELSE CASE broadCastType = "SCALAR" -> "BCAST_SCALAR"
           [] broadCastType = "ROW" -> "BCAST_ROW"
           [] broadCastType = "COL" -> "BCAST_COL"
           [] OTHER -> "NONE"

(***************************************************************************)
(* SpecBroadcast: a map is classified.                                     *)
(***************************************************************************)
InitBroadcast ==
    /\ pc = "start"
    /\ map \in AffineMaps
    /\ broadCast = Idle
    /\ unaryFlag = Idle
    /\ input = Idle /\ output = Idle /\ unaryInfo = Idle
    /\ ops = Idle /\ matched = Idle /\ result = Idle /\ call = Idle
    /\ numCreated = Idle
    /\ linalgGeneric = Idle /\ tppMatmul = Idle /\ matmulBody = Idle
    /\ ExtIdle

ClassifyMap ==
    /\ pc = "start"
    /\ broadCast' = getBroadCastFromMap(map)
    /\ unaryFlag' = getBroadCastUnaryFlagFromMap(map)
    /\ pc' = "done"
    /\ UNCHANGED <<map, unaryVars, rewriteVars, matmulVars, extVars>>

NextBroadcast == ClassifyMap

SpecBroadcast == InitBroadcast /\ [][NextBroadcast]_vars

\* The maps the classification names.
Map2(results) == [numDims |-> 2, numSymbols |-> 0, results |-> results]
MapIdentity == Map2(<<DimExpr(0), DimExpr(1)>>)
MapCol == Map2(<<ConstExpr(0), DimExpr(1)>>)
MapRow == Map2(<<DimExpr(0), ConstExpr(0)>>)
MapScalar == Map2(<<>>)
MapMinor == Map2(<<DimExpr(1)>>)
AcceptedMaps == {MapIdentity, MapCol, MapRow, MapScalar, MapMinor}

\* C1: once classified, (d0,d1)->(d0,d1) is NONE with flag NONE, (d0,d1)->(0,d1)
\* is COL with flag BCAST_COL, (d0,d1)->(d0,0) is ROW with flag BCAST_ROW and
\* (d0,d1)->() is SCALAR with flag BCAST_SCALAR.
C1_Classification ==
    pc = "done" =>
        /\ map = MapIdentity => broadCast = "NONE" /\ unaryFlag = "NONE"
        /\ map = MapCol => broadCast = "COL" /\ unaryFlag = "BCAST_COL"
        /\ map = MapRow => broadCast = "ROW" /\ unaryFlag = "BCAST_ROW"
        /\ map = MapScalar => broadCast = "SCALAR" /\ unaryFlag = "BCAST_SCALAR"

C1_Witness ==
    pc = "done" /\ map = MapCol /\ broadCast = "COL" /\ unaryFlag = "BCAST_COL"

\* C2: every map outside the accepted set {(d0,d1)->(d0,d1), (0,d1), (d0,0), (),
\* (d1)} is classified as failure (two broadcast results, permuted results, a
\* number of inputs other than 2, symbols, more results than inputs, ...).
C2_FailureOutsideAccepted ==
    pc = "done" /\ map \notin AcceptedMaps =>
        broadCast = Failure /\ unaryFlag = Failure

C2_Witness ==
    /\ pc = "done"
    /\ map = Map2(<<ConstExpr(0), ConstExpr(0)>>)
    /\ broadCast = Failure

(***************************************************************************)
(* Values and getUnaryInfo.  A Value is a scalar (its type is no           *)
(* ShapedType) or a shaped value with a shape and, when                    *)
(* mlir::utils::getStaticStrides succeeds on it, one static stride per     *)
(* dimension.  A dimension is a positive extent or kDynamic.               *)
(***************************************************************************)
MaxRank == 3

\* ShapedType::kDynamic, as a marker: MLIR's value is the least int64_t, whose
\* low 32 bits are zero.
kDynamic == -1

DimVals == {2, 3, kDynamic}
InputDimVals == {3}
StrideVals == {1, 4}

ScalarValue == [shaped |-> FALSE, shape |-> <<>>, static |-> FALSE, strides |-> <<>>]

ShapedValues(dims, minRank) ==
    UNION {{[shaped |-> TRUE, shape |-> s, static |-> FALSE, strides |-> <<>>],
            [shaped |-> TRUE, shape |-> s, static |-> TRUE, strides |-> t]} :
           s \in UNION {[1..r -> dims] : r \in minRank..MaxRank},
           t \in UNION {[1..r -> StrideVals] : r \in minRank..MaxRank}}

WellFormed(v) == v.static => Len(v.strides) = Len(v.shape)

\* The outputs: the assert of getUnaryInfo makes every output shaped.
OutputValues == {v \in ShapedValues(DimVals, 0) : WellFormed(v)}

\* The inputs: a scalar, or a shaped value of rank 1 and more.  (On a shaped
\* value of rank 0 the stride list is empty and back() has no defined result.)
InputValues == {ScalarValue} \cup {v \in ShapedValues(InputDimVals, 1) : WellFormed(v)}

getRank(v) == Len(v.shape)

\* mlir::utils::getStaticStrides(value): failure, or the static strides.
getStaticStrides(v) == [ok |-> v.static, val |-> v.strides]

\* The conversion of an extent (int64_t) to the unsigned field m or n.
toUnsigned(d) == IF d = kDynamic THEN 0 ELSE d

back(seq) == seq[Len(seq)]
front(seq) == seq[1]

FailureInfo == [ok |-> FALSE, m |-> 0, n |-> 0, ldi |-> 0, ldo |-> 0]

getUnaryInfoSwapLd(in, out) ==
    IF getRank(out) # 2 THEN FailureInfo
    ELSE LET stridesOnInput == getStaticStrides(in)
             stridesOnOutput == getStaticStrides(out) IN
         IF in.shaped /\ (~stridesOnInput.ok \/ back(stridesOnInput.val) # 1)
         THEN FailureInfo
         ELSE IF ~stridesOnOutput.ok \/ back(stridesOnOutput.val) # 1
         THEN FailureInfo
         ELSE [ok |-> TRUE,
               m |-> toUnsigned(out.shape[1]),
               n |-> toUnsigned(out.shape[2]),
               ldi |-> front(stridesOnOutput.val),
               ldo |-> IF in.shaped THEN front(stridesOnInput.val) ELSE 1]

getUnaryInfoNoBackCheck(in, out) ==
    IF getRank(out) # 2 THEN FailureInfo
    ELSE LET stridesOnInput == getStaticStrides(in)
             stridesOnOutput == getStaticStrides(out) IN
         IF in.shaped /\ ~stridesOnInput.ok
         THEN FailureInfo
         ELSE IF ~stridesOnOutput.ok \/ back(stridesOnOutput.val) # 1
         THEN FailureInfo
         ELSE [ok |-> TRUE,
               m |-> toUnsigned(out.shape[1]),
               n |-> toUnsigned(out.shape[2]),
               ldi |-> IF in.shaped THEN front(stridesOnInput.val) ELSE 1,
               ldo |-> front(stridesOnOutput.val)]

\* getUnaryInfo(input, output): the UnaryInfo, or failure.
getUnaryInfo(in, out) ==
    IF getRank(out) # 2 THEN FailureInfo
    ELSE LET stridesOnInput == getStaticStrides(in)
             stridesOnOutput == getStaticStrides(out) IN
         IF in.shaped /\ (~stridesOnInput.ok \/ back(stridesOnInput.val) # 1)
         THEN FailureInfo
         ELSE IF ~stridesOnOutput.ok \/ back(stridesOnOutput.val) # 1
         THEN FailureInfo
         ELSE [ok |-> TRUE,
               m |-> toUnsigned(out.shape[1]),
               n |-> toUnsigned(out.shape[2]),
               ldi |-> IF in.shaped THEN front(stridesOnInput.val) ELSE 1,
               ldo |-> front(stridesOnOutput.val)]

(***************************************************************************)
(* SpecUnary: the UnaryInfo of an input and an output is derived.          *)
(***************************************************************************)
InitUnary ==
    /\ pc = "start"
    /\ input \in InputValues
    /\ output \in OutputValues
    /\ unaryInfo = Idle
    /\ map = Idle /\ broadCast = Idle /\ unaryFlag = Idle
    /\ ops = Idle /\ matched = Idle /\ result = Idle /\ call = Idle
    /\ numCreated = Idle
    /\ linalgGeneric = Idle /\ tppMatmul = Idle /\ matmulBody = Idle
    /\ ExtIdle

DeriveUnaryInfo ==
    /\ pc = "start"
    /\ unaryInfo' = getUnaryInfo(input, output)
    /\ pc' = "done"
    /\ UNCHANGED <<input, output, broadcastVars, rewriteVars, matmulVars, extVars>>

NextUnary == DeriveUnaryInfo

SpecUnary == InitUnary /\ [][NextUnary]_vars

StaticShape(v) == \A i \in 1..Len(v.shape) : v.shape[i] # kDynamic
UnitInnermost(v) == v.static /\ Len(v.strides) >= 1 /\ back(v.strides) = 1

\* C3: for a rank-2 output of static shape MxN with innermost stride 1 and an
\* input that is a scalar or has static strides with innermost stride 1, the
\* derivation succeeds with m = M, n = N, ldo = the output's first stride and
\* ldi = the input's first stride, or 1 for a scalar.
C3_UnaryInfoDerived ==
    (/\ pc = "done"
     /\ getRank(output) = 2 /\ StaticShape(output) /\ UnitInnermost(output)
     /\ (~input.shaped \/ UnitInnermost(input)))
    => /\ unaryInfo.ok
       /\ unaryInfo.m = output.shape[1]
       /\ unaryInfo.n = output.shape[2]
       /\ unaryInfo.ldo = output.strides[1]
       /\ unaryInfo.ldi = (IF input.shaped THEN input.strides[1] ELSE 1)

C3_Witness ==
    /\ pc = "done"
    /\ output.shape = <<2, 3>> /\ output.static /\ output.strides = <<4, 1>>
    /\ input.shaped /\ input.shape = <<3>> /\ input.static /\ input.strides = <<1>>
    /\ unaryInfo = [ok |-> TRUE, m |-> 2, n |-> 3, ldi |-> 1, ldo |-> 4]

C5_NoInfoForRank3Input ==
    pc = "done" /\ input.shaped /\ getRank(input) >= 3 => ~unaryInfo.ok

(***************************************************************************)
(* The linalg-to-xsmm patterns.  The function body is a list of            *)
(* operations over a few SSA values; a pattern application either returns  *)
(* failure or replaces the matched operation through replaceOpWithUnary.   *)
(***************************************************************************)
MaxOps == 2

\* The SSA values the operations use, with their types.
ValCst == 0     \* f32 constant
ValA == 1       \* memref<2x3xf32, strided<[4, 1]>>, a subview taken at the
                \* loop induction variable
ValB == 2       \* memref<3x2xbf16, strided<[4, 1]>>
ValR == 3       \* memref<3xf32>
ValS == 4       \* memref<2x3xf32, strided<[4, 4]>>
ValT == 5       \* memref<2x3x3xf32>
ValOne == 6     \* f32 constant 1.0
\* The first id of the values the rewriter creates (dispatch results).
FirstCreated == 7

Memref(shape, strides) ==
    [shaped |-> TRUE, shape |-> shape, static |-> TRUE, strides |-> strides]

TypeOf(v) ==
    CASE v \in {ValCst, ValOne} -> ScalarValue
      [] v = ValA -> Memref(<<2, 3>>, <<4, 1>>)
      [] v = ValB -> Memref(<<3, 2>>, <<4, 1>>)
      [] v = ValR -> Memref(<<3>>, <<1>>)
      [] v = ValS -> Memref(<<2, 3>>, <<4, 4>>)
      [] v = ValT -> Memref(<<2, 3, 3>>, <<4, 4, 1>>)

ElemOf(v) == IF v = ValB THEN "bf16" ELSE "f32"

\* The values that change from one loop iteration to the next.
IvDependent == {ValA}

\* xsmm::utils::getDataType(rewriter, type): the data type tag of the element
\* type.
getDataType(v) == ElemOf(v)

NoOp == [name |-> "", operands |-> <<>>, maps |-> <<>>, buffer |-> FALSE,
         matches |-> FALSE, captured |-> <<>>, kind |-> "", dims |-> <<>>,
         flags |-> <<>>, dtype |-> "", res |-> -1]

\* What the structural matcher (isTwoDFillOpWithZeros, isTwoDTransposeOp,
\* isTwoDReluOp) answers for an operation and the operands it hands back: no
\* match, the operation's operands, or its last operand alone.
MatchKinds == {"nomatch", "all", "last"}

Captured(operands, mk) ==
    CASE mk = "all" -> operands
      [] mk = "last" -> <<operands[Len(operands)]>>
      [] OTHER -> <<>>

LinalgOp(name, operands, maps, buffer, mk) ==
    [NoOp EXCEPT !.name = name, !.operands = operands, !.maps = maps,
                 !.buffer = buffer, !.matches = (mk # "nomatch"),
                 !.captured = Captured(operands, mk)]

\* The fills: with the zero constant on every output, and with 1.0 on a
\* 2-D output (mlp-single-layer-bf16.mlir).
FillOps ==
    {LinalgOp("linalg.fill", <<ValCst, out>>, <<>>, TRUE, mk) :
        out \in {ValA, ValS, ValT}, mk \in MatchKinds}
    \cup {LinalgOp("linalg.fill", <<ValOne, ValA>>, <<>>, TRUE, "all")}

TransposeOps ==
    {LinalgOp("linalg.transpose", io, <<>>, TRUE, mk) :
        io \in {<<ValA, ValB>>, <<ValS, ValB>>, <<ValA, ValS>>},
        mk \in MatchKinds}

\* The input operand of a generic and its indexing map: the map has as many
\* results as the operand has dimensions.
GenericInputs ==
    {<<ValCst, MapScalar>>, <<ValR, MapMinor>>,
     <<ValR, Map2(<<DimExpr(0)>>)>>, <<ValA, MapIdentity>>, <<ValA, MapCol>>,
     <<ValA, Map2(<<ConstExpr(0), ConstExpr(0)>>)>>}

\* hasBufferSemantics and the matcher's answer: a generic on tensors appears
\* once, as one the matcher accepts.
GenericFlavours == {<<TRUE, mk>> : mk \in MatchKinds} \cup {<<FALSE, "all">>}

GenericOps ==
    {LinalgOp("linalg.generic", <<im[1], out>>, <<im[2], MapIdentity>>,
              fl[1], fl[2]) :
        im \in GenericInputs, out \in {ValB, ValS}, fl \in GenericFlavours}

OtherOps == {[NoOp EXCEPT !.name = "memref.copy", !.operands = <<ValA, ValB>>]}

Operations == FillOps \cup TransposeOps \cup GenericOps \cup OtherOps

\* linalgOp.getDpsInitOperands()[0]->get(): the output is the last operand.
getDpsInit(op) == op.operands[Len(op.operands)]

\* What a pattern hands to replaceOpWithUnary, or its failure.
NoPlan == [ok |-> FALSE, info |-> FailureInfo, flags |-> <<>>, kind |-> ""]

replaceOpWithUnaryDispatchOperands(list, i, info, flags, kind, dispatched) ==
    LET linalgOp == list[i]
        dtype == getDataType(getDpsInit(linalgOp))
        dispatch == [NoOp EXCEPT !.name = "xsmm.unary.dispatch", !.kind = kind,
                                 !.dims = <<info.m, info.n, info.ldi, info.ldo>>,
                                 !.flags = flags, !.dtype = dtype,
                                 !.operands = linalgOp.operands,
                                 !.res = dispatched]
        invoke == [NoOp EXCEPT !.name = "xsmm.unary", !.kind = kind,
                               !.dtype = dtype,
                               !.operands = <<dispatched>> \o linalgOp.operands]
    IN  SubSeq(list, 1, i - 1) \o <<dispatch, invoke>>
            \o SubSeq(list, i + 1, Len(list))

replaceOpWithUnaryHandleLast(list, i, info, flags, kind, dispatched) ==
    LET linalgOp == list[i]
        dtype == getDataType(getDpsInit(linalgOp))
        dispatch == [NoOp EXCEPT !.name = "xsmm.unary.dispatch", !.kind = kind,
                                 !.dims = <<info.m, info.n, info.ldi, info.ldo>>,
                                 !.flags = flags, !.dtype = dtype,
                                 !.res = dispatched]
        invoke == [NoOp EXCEPT !.name = "xsmm.unary", !.kind = kind,
                               !.dtype = dtype,
                               !.operands = linalgOp.operands \o <<dispatched>>]
    IN  SubSeq(list, 1, i - 1) \o <<dispatch, invoke>>
            \o SubSeq(list, i + 1, Len(list))

replaceOpWithUnaryKeepOp(list, i, info, flags, kind, dispatched) ==
    LET linalgOp == list[i]
        dtype == getDataType(getDpsInit(linalgOp))
        dispatch == [NoOp EXCEPT !.name = "xsmm.unary.dispatch", !.kind = kind,
                                 !.dims = <<info.m, info.n, info.ldi, info.ldo>>,
                                 !.flags = flags, !.dtype = dtype,
                                 !.res = dispatched]
        invoke == [NoOp EXCEPT !.name = "xsmm.unary", !.kind = kind,
                               !.dtype = dtype,
                               !.operands = <<dispatched>> \o linalgOp.operands]
    IN  SubSeq(list, 1, i - 1) \o <<dispatch, invoke>>
            \o SubSeq(list, i, Len(list))

\* replaceOpWithUnary: the operation at position i becomes a dispatch, built
\* from attributes only, followed by an invoke on the dispatch result and the
\* operands of the replaced operation.
replaceOpWithUnary(list, i, info, flags, kind, dispatched) ==
    LET linalgOp == list[i]
        dtype == getDataType(getDpsInit(linalgOp))
        dispatch == [NoOp EXCEPT !.name = "xsmm.unary.dispatch", !.kind = kind,
                                 !.dims = <<info.m, info.n, info.ldi, info.ldo>>,
                                 !.flags = flags, !.dtype = dtype,
                                 !.res = dispatched]
        invoke == [NoOp EXCEPT !.name = "xsmm.unary", !.kind = kind,
                               !.dtype = dtype,
                               !.operands = <<dispatched>> \o linalgOp.operands]
    IN  SubSeq(list, 1, i - 1) \o <<dispatch, invoke>>
            \o SubSeq(list, i + 1, Len(list))

\* getOperandFromValue: the position of the first operand holding val.
getOperandFromValue(op, val) ==
    CHOOSE j \in 1..Len(op.operands) :
        /\ op.operands[j] = val
        /\ \A k \in 1..(j - 1) : op.operands[k] # val

\* structured_match::utils::isTwoDFillOpWithZeros: the structural answer of
\* the matcher, and the filled value is the zero constant.
isTwoDFillOpWithZeros(fillOp) ==
    fillOp.matches /\ fillOp.operands[1] = ValCst

FillPlanNoBroadcast(fillOp) ==
    IF ~isTwoDFillOpWithZeros(fillOp) \/ Len(fillOp.captured) # 2 THEN NoPlan
    ELSE LET info == getUnaryInfo(TypeOf(fillOp.captured[1]),
                                  TypeOf(fillOp.captured[2])) IN
         IF ~info.ok THEN NoPlan
         ELSE [ok |-> TRUE, info |-> info, flags |-> <<"NONE">>,
               kind |-> "ZERO"]

\* The part of a matchAndRewrite before replaceOpWithUnary.
FillPlan(fillOp) ==
    IF ~isTwoDFillOpWithZeros(fillOp) \/ Len(fillOp.captured) # 2 THEN NoPlan
    ELSE LET info == getUnaryInfo(TypeOf(fillOp.captured[1]),
                                  TypeOf(fillOp.captured[2])) IN
         IF ~info.ok THEN NoPlan
         ELSE [ok |-> TRUE, info |-> info, flags |-> <<"BCAST_SCALAR">>,
               kind |-> "ZERO"]

TransposePlanNoSwap(transposeOp) ==
    IF ~transposeOp.matches \/ Len(transposeOp.captured) # 2 THEN NoPlan
    ELSE LET info == getUnaryInfo(TypeOf(transposeOp.captured[1]),
                                  TypeOf(transposeOp.captured[2])) IN
         IF ~info.ok THEN NoPlan
         ELSE [ok |-> TRUE, info |-> info,
               flags |-> <<"NONE">>, kind |-> "TRANSPOSE"]

TransposePlan(transposeOp) ==
    IF ~transposeOp.matches \/ Len(transposeOp.captured) # 2 THEN NoPlan
    ELSE LET info == getUnaryInfo(TypeOf(transposeOp.captured[1]),
                                  TypeOf(transposeOp.captured[2])) IN
         IF ~info.ok THEN NoPlan
         ELSE [ok |-> TRUE,
               info |-> [info EXCEPT !.m = info.n, !.n = info.m],
               flags |-> <<"NONE">>, kind |-> "TRANSPOSE"]

ReluPlan(genericOp) ==
    IF ~genericOp.buffer \/ ~genericOp.matches \/ Len(genericOp.captured) # 2
    THEN NoPlan
    ELSE LET info == getUnaryInfo(TypeOf(genericOp.captured[1]),
                                  TypeOf(genericOp.captured[2])) IN
         IF ~info.ok THEN NoPlan
         ELSE LET inputOperand ==
                      getOperandFromValue(genericOp, genericOp.captured[1])
                  broadCastFlag ==
                      getBroadCastUnaryFlagFromMap(genericOp.maps[inputOperand])
              IN  IF broadCastFlag = Failure THEN NoPlan
                  ELSE [ok |-> TRUE, info |-> info,
                        flags |-> <<broadCastFlag>>, kind |-> "RELU"]

\* One matchAndRewrite on the operation at position i: what it does to the
\* function body.
RewriteOp(i, plan) ==
    /\ matched' = i
    /\ call' = plan
    /\ IF plan.ok
       THEN /\ ops' = replaceOpWithUnary(ops, i, plan.info, plan.flags,
                                         plan.kind, FirstCreated + numCreated)
            /\ numCreated' = numCreated + 1
            /\ result' = "success"
       ELSE /\ result' = Failure
            /\ UNCHANGED <<ops, numCreated>>

\* One matchAndRewrite on the operation at position i, outside a driver.
Rewrite(i, plan) ==
    /\ RewriteOp(i, plan)
    /\ UNCHANGED <<pc, broadcastVars, unaryVars, matmulVars, extVars>>

ConvertFillOpToUnaryZero ==
    \E i \in 1..Len(ops) :
        ops[i].name = "linalg.fill" /\ Rewrite(i, FillPlan(ops[i]))

ConvertTransposeOpToUnaryTranspose ==
    \E i \in 1..Len(ops) :
        ops[i].name = "linalg.transpose" /\ Rewrite(i, TransposePlan(ops[i]))

\* A variant that creates the dispatch before the broadcast flag is known.
ConvertGenericToUnaryReluEager ==
    \E i \in 1..Len(ops) :
        /\ ops[i].name = "linalg.generic"
        /\ LET genericOp == ops[i]
               plan == ReluPlan(genericOp)
               early == /\ genericOp.buffer /\ genericOp.matches
                        /\ Len(genericOp.captured) = 2
                        /\ getUnaryInfo(TypeOf(genericOp.captured[1]),
                                        TypeOf(genericOp.captured[2])).ok
           IN  IF ~plan.ok /\ early
               THEN /\ matched' = i
                    /\ call' = plan
                    /\ result' = Failure
                    /\ ops' = SubSeq(ops, 1, i - 1)
                              \o <<[NoOp EXCEPT !.name = "xsmm.unary.dispatch",
                                                !.kind = "RELU",
                                                !.res = FirstCreated + numCreated]>>
                              \o SubSeq(ops, i, Len(ops))
                    /\ numCreated' = numCreated + 1
                    /\ UNCHANGED <<pc, broadcastVars, unaryVars, matmulVars, extVars>>
               ELSE Rewrite(i, plan)

ConvertGenericToUnaryRelu ==
    \E i \in 1..Len(ops) :
        ops[i].name = "linalg.generic" /\ Rewrite(i, ReluPlan(ops[i]))

(***************************************************************************)
(* SpecRewrite: the patterns of populateLinalgToXsmmPatterns are applied   *)
(* to the operations of a function body, in any order.                     *)
(***************************************************************************)
InitRewrite ==
    /\ pc = "rewrite"
    /\ ops \in UNION {[1..l -> Operations] : l \in 1..MaxOps}
    /\ matched = 0
    /\ result = Idle
    /\ call = NoPlan
    /\ numCreated = 0
    /\ map = Idle /\ broadCast = Idle /\ unaryFlag = Idle
    /\ input = Idle /\ output = Idle /\ unaryInfo = Idle
    /\ linalgGeneric = Idle /\ tppMatmul = Idle /\ matmulBody = Idle
    /\ ExtIdle

NextRewrite ==
    \/ ConvertFillOpToUnaryZero
    \/ ConvertTransposeOpToUnaryTranspose
    \/ ConvertGenericToUnaryRelu

SpecRewrite == InitRewrite /\ [][NextRewrite]_vars

IsDispatch(op) == op.name = "xsmm.unary.dispatch"
IsInvoke(op) == op.name = "xsmm.unary"

\* C6: a pattern application that returns failure leaves the program exactly
\* as it was: the list of operations, with every operation's operands and
\* attributes, is unchanged and no dispatch or invoke has been created.
C6_FailureLeavesProgram ==
    [][result' = Failure => ops' = ops /\ numCreated' = numCreated]_vars

\* A generic that matched structurally was refused for its broadcast map.
C6_Witness ==
    /\ result = Failure
    /\ matched \in 1..Len(ops)
    /\ ops[matched].name = "linalg.generic"
    /\ ops[matched].matches /\ ops[matched].buffer
    /\ Len(ops[matched].captured) = 2
    /\ getUnaryInfo(TypeOf(ops[matched].captured[1]),
                    TypeOf(ops[matched].captured[2])).ok

\* C7: a successful application replaces the matched operation by one dispatch
\* followed by one invoke; the dispatch carries dims [m, n, ldi, ldo], the
\* flags, the kind and the data type, the invoke the same kind and data type,
\* the dispatch result as first operand and then the operands of the replaced
\* operation in their order; the other operations stay.
C7_DispatchThenInvoke ==
    [][result' = "success" =>
         LET i == matched'
             old == ops[i]
             d == ops'[i]
             inv == ops'[i + 1]
         IN  /\ Len(ops') = Len(ops) + 1
             /\ SubSeq(ops', 1, i - 1) = SubSeq(ops, 1, i - 1)
             /\ SubSeq(ops', i + 2, Len(ops')) = SubSeq(ops, i + 1, Len(ops))
             /\ IsDispatch(d) /\ IsInvoke(inv)
             /\ d.dims = <<call'.info.m, call'.info.n, call'.info.ldi,
                           call'.info.ldo>>
             /\ d.flags = call'.flags /\ d.kind = call'.kind
             /\ d.dtype = ElemOf(old.operands[Len(old.operands)])
             /\ inv.kind = d.kind /\ inv.dtype = d.dtype
             /\ inv.operands[1] = d.res
             /\ Tail(inv.operands) = old.operands
             /\ \A j \in 1..Len(ops) : \A k \in 1..Len(ops[j].operands) :
                    ops[j].operands[k] # d.res /\ ops[j].res # d.res]_vars

C7_Witness ==
    /\ result = "success"
    /\ IsDispatch(ops[matched]) /\ IsInvoke(ops[matched + 1])
    /\ ops[matched].kind = "RELU" /\ ops[matched].flags = <<"BCAST_COL">>
    /\ ops[matched].dims = <<3, 2, 1, 4>>
    /\ ops[matched + 1].operands = <<ops[matched].res, ValR, ValB>>

\* C8: a dispatch takes no runtime value: it has no operands, so it depends on
\* no value that changes across loop iterations; the live operands are
\* consumed by the invoke alone.
C8_DispatchHasNoOperands ==
    pc = "rewrite" =>
        \A i \in 1..Len(ops) :
            IsDispatch(ops[i]) =>
                /\ ops[i].operands = <<>>
                /\ \A k \in 1..Len(ops[i].operands) :
                       ops[i].operands[k] \notin IvDependent

\* An operation on the loop-dependent subview has been lowered.
C8_Witness ==
    /\ pc = "rewrite"
    /\ \E i \in 1..(Len(ops) - 1) :
          /\ IsDispatch(ops[i]) /\ IsInvoke(ops[i + 1])
          /\ \E k \in 1..Len(ops[i + 1].operands) :
                 ops[i + 1].operands[k] \in IvDependent

\* C25: a lowered transpose with an output of shape MxN has a dispatch with
\* dims [N, M, ldi, ldo] (ldi the leading stride of the input, ldo that of
\* the output), kind TRANSPOSE and the single flag NONE.
C25_TransposeDims ==
    [][result' = "success" /\ ops[matched'].name = "linalg.transpose" =>
         LET old == ops[matched']
             d == ops'[matched']
             in == TypeOf(old.operands[1])
             out == TypeOf(old.operands[2])
         IN  /\ IsDispatch(d)
             /\ d.dims = <<out.shape[2], out.shape[1], front(in.strides),
                           front(out.strides)>>
             /\ d.kind = "TRANSPOSE"
             /\ d.flags = <<"NONE">>]_vars

\* The transpose of the 2x3 ValA into the 3x2 ValB has been lowered.
C25_Witness ==
    /\ result = "success"
    /\ IsDispatch(ops[matched]) /\ IsInvoke(ops[matched + 1])
    /\ ops[matched].kind = "TRANSPOSE"
    /\ ops[matched].dims = <<2, 3, 4, 4>>
    /\ ops[matched + 1].operands = <<ops[matched].res, ValA, ValB>>

\* C26: a fill is converted only when the matcher accepts it as a 2-D fill
\* with zeros and hands back exactly two operands; the dispatch then has kind
\* ZERO, the flag BCAST_SCALAR and dims [M, N, 1, ldo] for an MxN output; a
\* fill with a value other than zero is never converted.
C26_FillToZero ==
    [][ops[matched'].name = "linalg.fill" =>
         LET old == ops[matched']
             d == ops'[matched']
             out == TypeOf(old.operands[2])
         IN  /\ old.operands[1] # ValCst => result' = Failure
             /\ result' = "success" =>
                   /\ old.matches /\ Len(old.captured) = 2
                   /\ old.operands[1] = ValCst
                   /\ getRank(out) = 2
                   /\ IsDispatch(d)
                   /\ d.kind = "ZERO"
                   /\ d.flags = <<"BCAST_SCALAR">>
                   /\ d.dims = <<out.shape[1], out.shape[2], 1,
                                 front(out.strides)>>]_vars

\* The zero fill of the 2x3 ValA has been lowered.
C26_Witness ==
    /\ result = "success"
    /\ IsDispatch(ops[matched]) /\ IsInvoke(ops[matched + 1])
    /\ ops[matched].kind = "ZERO" /\ ops[matched].flags = <<"BCAST_SCALAR">>
    /\ ops[matched].dims = <<2, 3, 1, 4>>
    /\ ops[matched + 1].operands = <<ops[matched].res, ValCst, ValA>>

(***************************************************************************)
(* SpecGreedy: applyPatternsAndFoldGreedily on a function body.  The       *)
(* driver puts every operation on a worklist, takes the operations off it  *)
(* one by one and tries the pattern rooted at the operation; created       *)
(* operations are put on the worklist.  When the worklist is empty and an  *)
(* application succeeded, it starts over, at most MaxIterations times.     *)
(***************************************************************************)
MaxGreedyOps == 2

\* GreedyRewriteConfig::maxIterations, not set by the pass.
MaxIterations == 10

\* The worklist holds positions of the body; the back is taken first.
pushAll(n) == [k \in 1..n |-> n - k + 1]

\* The worklist after the operation at position i became `width` operations.
shiftAfter(worklist, i, width) ==
    [k \in 1..Len(worklist) |->
        IF worklist[k] > i THEN worklist[k] + (width - 1) ELSE worklist[k]]

StartDriver(n) ==
    [worklist |-> pushAll(n), changed |-> FALSE, iteration |-> 0,
     converged |-> FALSE]

\* The pattern rooted at an operation, by its name, and what it decides.
PlanOf(op) ==
    CASE op.name = "linalg.fill" -> FillPlan(op)
      [] op.name = "linalg.transpose" -> TransposePlan(op)
      [] op.name = "linalg.generic" -> ReluPlan(op)
      [] OTHER -> NoPlan

RootedNames == {"linalg.fill", "linalg.transpose", "linalg.generic"}

greedyFrame == <<pc, broadcastVars, unaryVars, matmulVars, matcherVars, tagVars,
                 packVars, handles, verified, stack>>

\* The driver takes the operation at the back of the worklist and applies
\* the pattern rooted at it.
GreedyApply(name) ==
    /\ driver.worklist # <<>>
    /\ LET i == back(driver.worklist)
           rest == SubSeq(driver.worklist, 1, Len(driver.worklist) - 1)
           plan == PlanOf(ops[i])
       IN  /\ ops[i].name = name
           /\ RewriteOp(i, plan)
           /\ driver' = [driver EXCEPT
                            !.worklist = IF plan.ok
                                         THEN shiftAfter(rest, i, 2) \o <<i, i + 1>>
                                         ELSE rest,
                            !.changed = @ \/ plan.ok]
    /\ UNCHANGED greedyFrame

GreedyFillOpToUnaryZero ==
    pc = "greedy" /\ GreedyApply("linalg.fill")

GreedyTransposeOpToUnaryTranspose ==
    pc = "greedy" /\ GreedyApply("linalg.transpose")

GreedyGenericToUnaryRelu ==
    pc = "greedy" /\ GreedyApply("linalg.generic")

\* No pattern is rooted at the operation: it leaves the worklist.
GreedyNoPattern ==
    /\ pc = "greedy"
    /\ driver.worklist # <<>>
    /\ ops[back(driver.worklist)].name \notin RootedNames
    /\ driver' = [driver EXCEPT
                     !.worklist = SubSeq(@, 1, Len(@) - 1)]
    /\ UNCHANGED <<rewriteVars, greedyFrame>>

\* The worklist is empty and the body changed: another iteration.
GreedyIterate ==
    /\ pc = "greedy"
    /\ driver.worklist = <<>>
    /\ driver.changed
    /\ driver.iteration + 1 < MaxIterations
    /\ driver' = [driver EXCEPT !.worklist = pushAll(Len(ops)),
                                !.changed = FALSE,
                                !.iteration = @ + 1]
    /\ UNCHANGED <<rewriteVars, greedyFrame>>

\* The driver returns: converged when the last iteration changed nothing.
GreedyReturn ==
    /\ pc = "greedy"
    /\ driver.worklist = <<>>
    /\ ~driver.changed \/ driver.iteration + 1 >= MaxIterations
    /\ driver' = [driver EXCEPT !.converged = ~driver.changed]
    /\ pc' = "done"
    /\ UNCHANGED <<rewriteVars, broadcastVars, unaryVars, matmulVars, matcherVars,
                   tagVars, packVars, handles, verified, stack>>

\* Bodies of fills, transposes, generics on buffers and a copy; the matcher
\* hands back no operand or all of them.
GreedyOperations ==
    {op \in Operations :
        /\ op.operands \in {<<ValCst, ValA>>, <<ValOne, ValA>>, <<ValA, ValB>>}
        /\ Len(op.captured) # 1
        /\ op.name = "linalg.generic" => op.buffer}

InitGreedy ==
    /\ pc = "greedy"
    /\ ops \in UNION {[1..l -> GreedyOperations] : l \in 1..MaxGreedyOps}
    /\ driver = StartDriver(Len(ops))
    /\ matched = 0
    /\ result = Idle
    /\ call = NoPlan
    /\ numCreated = 0
    /\ map = Idle /\ broadCast = Idle /\ unaryFlag = Idle
    /\ input = Idle /\ output = Idle /\ unaryInfo = Idle
    /\ linalgGeneric = Idle /\ tppMatmul = Idle /\ matmulBody = Idle
    /\ matcherIdle /\ tagIdle /\ packIdle
    /\ handles = Idle /\ verified = Idle /\ stack = Idle

NextGreedy ==
    \/ GreedyFillOpToUnaryZero
    \/ GreedyTransposeOpToUnaryTranspose
    \/ GreedyGenericToUnaryRelu
    \/ GreedyNoPattern
    \/ GreedyIterate
    \/ GreedyReturn

SpecGreedy == InitGreedy /\ [][NextGreedy]_vars

\* The driver is a sequential loop: it keeps taking steps until it returns.
SpecGreedyFair == SpecGreedy /\ WF_vars(NextGreedy)

NumLinalg(list) ==
    Cardinality({i \in 1..Len(list) : list[i].name \in RootedNames})

NumRewritable(list) ==
    Cardinality({i \in 1..Len(list) : PlanOf(list[i]).ok})

\* C24: the greedy application of the linalg-to-xsmm patterns terminates: a
\* successful application removes one linalg fill, transpose or generic and
\* puts a dispatch and an invoke that no pattern rewrites in its place; the
\* successful applications and the operations still to rewrite add up to
\* the operations to rewrite at the start; the driver returns, converged,
\* with no operation left that a pattern rewrites.
C24_GreedyTerminates ==
    /\ [][ops' # ops =>
            /\ NumLinalg(ops') = NumLinalg(ops) - 1
            /\ IsDispatch(ops'[matched']) /\ IsInvoke(ops'[matched' + 1])
            /\ ~PlanOf(ops'[matched']).ok /\ ~PlanOf(ops'[matched' + 1]).ok
            /\ numCreated' = numCreated + 1]_vars
    /\ [][numCreated' + NumRewritable(ops') = numCreated + NumRewritable(ops)]_vars
    /\ [](pc = "done" => NumRewritable(ops) = 0 /\ driver.converged)
    /\ <>(pc = "done")

\* The driver returned after it rewrote two operations.
C24_Witness ==
    /\ pc = "done"
    /\ driver.converged
    /\ driver.iteration = 1
    /\ numCreated = 2
    /\ Len(ops) = 4

(***************************************************************************)
(* The matmul matcher.  A linalg.generic has iterator types, one indexing  *)
(* map per operand and a single-block body.  A body has block arguments,   *)
(* a list of operations and a linalg.yield; a value is a block argument or *)
(* the result of an earlier operation of the block.                        *)
(***************************************************************************)
MaxBodyOps == 2
MaxLoops == 3

BlockArg(i) == [def |-> "arg", idx |-> i]
OpResult(j) == [def |-> "op", idx |-> j]

\* The values in scope after n operations of a block with na arguments.
ValuesInScope(na, n) ==
    {BlockArg(i) : i \in 0..(na - 1)} \cup {OpResult(j) : j \in 1..n}

BinaryKinds == {"arith.addf", "arith.mulf", "arith.addi", "arith.muli"}
UnaryKinds == {"arith.negf"}

BodyOps(vals) ==
    {[kind |-> k, operands |-> <<x, y>>] : k \in BinaryKinds, x \in vals, y \in vals}
        \cup {[kind |-> k, operands |-> <<x>>] : k \in UnaryKinds, x \in vals}

RECURSIVE OpSeqs(_, _)
OpSeqs(na, n) ==
    IF n = 0 THEN {<<>>}
    ELSE {Append(s, op) : s \in OpSeqs(na, n - 1),
                          op \in BodyOps(ValuesInScope(na, n - 1))}

Block(na, opSeq, yield) == [numArgs |-> na, ops |-> opSeq, yield |-> yield]

\* isChainOfUnaryOpsFrom(v, from): the use-def chain from v to `from` consists
\* of single-operand operations.
RECURSIVE isChainOfUnaryOpsFrom(_, _, _)
isChainOfUnaryOpsFrom(block, v, from) ==
    IF v = from THEN TRUE
    ELSE IF v.def # "op" THEN FALSE
    ELSE IF Len(block.ops[v.idx].operands) # 1 THEN FALSE
    ELSE isChainOfUnaryOpsFrom(block, block.ops[v.idx].operands[1], from)

\* getSingleOpOfType<OpType>(block): the position of the only operation of
\* the kind, 0 (null) when there is none or more than one.
getSingleOpOfType(block, kind) ==
    LET found == {j \in 1..Len(block.ops) : block.ops[j].kind = kind} IN
    IF Cardinality(found) = 1 THEN CHOOSE j \in found : TRUE ELSE 0

isAddMulDirect(block, addKind, mulKind) ==
    IF block.numArgs # 3 THEN FALSE
    ELSE IF Len(block.yield) # 1 THEN FALSE
    ELSE LET addOp == getSingleOpOfType(block, addKind)
             mulOp == getSingleOpOfType(block, mulKind) IN
         IF addOp = 0 \/ mulOp = 0 THEN FALSE
         ELSE LET a == block.ops[mulOp].operands[1]
                  b == block.ops[mulOp].operands[2]
                  c1 == block.ops[addOp].operands[1]
                  c2 == block.ops[addOp].operands[2]
              IN  \/ block.yield[1] = OpResult(addOp)
                  \/ (c1 = BlockArg(2) /\ c2 = OpResult(mulOp))
                  \/ (a = BlockArg(0) /\ b = BlockArg(1))

\* isAddMul<AddOpType, MulOpType>(block).  The three conditions are
\* accumulated with |=, so success is their disjunction.
isAddMul(block, addKind, mulKind) ==
    IF block.numArgs # 3 THEN FALSE
    ELSE IF Len(block.yield) # 1 THEN FALSE
    ELSE LET addOp == getSingleOpOfType(block, addKind)
             mulOp == getSingleOpOfType(block, mulKind) IN
         IF addOp = 0 \/ mulOp = 0 THEN FALSE
         ELSE LET argA == BlockArg(0)
                  argB == BlockArg(1)
                  a == block.ops[mulOp].operands[1]
                  b == block.ops[mulOp].operands[2]
                  mul == OpResult(mulOp)
                  argC == BlockArg(2)
                  c1 == block.ops[addOp].operands[1]
                  c2 == block.ops[addOp].operands[2]
                  add == OpResult(addOp)
                  res == block.yield[1]
                  un(v, from) == isChainOfUnaryOpsFrom(block, v, from)
                  success0 == un(res, add)
                  success1 == success0 \/ ((un(c1, argC) /\ un(c2, mul))
                                           \/ (un(c1, mul) /\ un(c2, argC)))
                  success2 == success1 \/ ((un(a, argA) /\ un(b, argB))
                                           \/ (un(a, argB) /\ un(b, argA)))
              IN  success2

\* hasMatmulBody(linalgOp): the operations of the model have one region of one
\* block.
hasMatmulBody(linalgOp) ==
    LET isFloat == isAddMul(linalgOp.body, "arith.addf", "arith.mulf")
        isInt == isAddMul(linalgOp.body, "arith.addi", "arith.muli")
    IN  isFloat \/ isInt

IteratorKinds == {"parallel", "reduction"}
isParallelIterator(t) == t = "parallel"
isReductionIterator(t) == t = "reduction"

\* AffineMap::inferFromExprList: one map per list of expressions, all over as
\* many dimensions as the largest dimension position used plus one.
inferFromExprList(lists) ==
    LET positions == UNION {{lists[l][e].p : e \in {x \in 1..Len(lists[l]) :
                                                     lists[l][x].k = "dim"}} :
                            l \in 1..Len(lists)}
        nd == IF positions = {} THEN 0
              ELSE (CHOOSE q \in positions : \A r \in positions : r <= q) + 1
    IN  [l \in 1..Len(lists) |->
            [numDims |-> nd, numSymbols |-> 0, results |-> lists[l]]]

\* The maps (i, k), (k, j), (i, j) over the dimensions (i, j, k).
MatmulMaps ==
    LET i == DimExpr(0)
        j == DimExpr(1)
        k == DimExpr(2)
    IN  inferFromExprList(<<<<i, k>>, <<k, j>>, <<i, j>>>>)

isTppMatmulNoMaps(linalgOp) ==
    LET iteratorTypes == linalgOp.iteratorTypes IN
    IF Len(iteratorTypes) # 3 THEN FALSE
    ELSE IF ~(/\ isParallelIterator(iteratorTypes[1])
              /\ isParallelIterator(iteratorTypes[2])
              /\ isReductionIterator(iteratorTypes[3]))
    THEN FALSE
    ELSE hasMatmulBody(linalgOp)

\* isTppMatmul(linalgOp)
isTppMatmul(linalgOp) ==
    LET iteratorTypes == linalgOp.iteratorTypes IN
    IF Len(iteratorTypes) # 3 THEN FALSE
    ELSE IF ~(/\ isParallelIterator(iteratorTypes[1])
              /\ isParallelIterator(iteratorTypes[2])
              /\ isReductionIterator(iteratorTypes[3]))
    THEN FALSE
    ELSE IF linalgOp.indexingMaps # MatmulMaps THEN FALSE
    ELSE hasMatmulBody(linalgOp)

Generic(iteratorTypes, indexingMaps, body) ==
    [iteratorTypes |-> iteratorTypes, indexingMaps |-> indexingMaps,
     body |-> body]

\* Bodies over (a, b, c) for the operations whose iterators and maps vary.
FloatMatmulBody ==
    Block(3, <<[kind |-> "arith.mulf", operands |-> <<BlockArg(0), BlockArg(1)>>],
               [kind |-> "arith.addf", operands |-> <<BlockArg(2), OpResult(1)>>]>>,
          <<OpResult(2)>>)
PermutedMatmulBody ==
    Block(3, <<[kind |-> "arith.muli", operands |-> <<BlockArg(1), BlockArg(0)>>],
               [kind |-> "arith.addi", operands |-> <<OpResult(1), BlockArg(2)>>]>>,
          <<OpResult(2)>>)
WrappedMatmulBody ==
    Block(3, <<[kind |-> "arith.mulf", operands |-> <<BlockArg(0), BlockArg(1)>>],
               [kind |-> "arith.addf", operands |-> <<BlockArg(2), OpResult(1)>>],
               [kind |-> "arith.negf", operands |-> <<OpResult(2)>>]>>,
          <<OpResult(3)>>)
AddOnlyBody ==
    Block(3, <<[kind |-> "arith.addf", operands |-> <<BlockArg(0), BlockArg(1)>>]>>,
          <<OpResult(1)>>)
YieldOnlyBody == Block(3, <<>>, <<BlockArg(0)>>)
SampleBodies ==
    {FloatMatmulBody, PermutedMatmulBody, WrappedMatmulBody, AddOnlyBody,
     YieldOnlyBody}

\* The maps of an operand of rank 2 over n loops: two distinct or equal
\* dimensions.
OperandMaps(n) ==
    {[numDims |-> n, numSymbols |-> 0, results |-> <<DimExpr(x), DimExpr(y)>>] :
        x \in 0..(n - 1), y \in 0..(n - 1)}

(***************************************************************************)
(* SpecMatmul: isTppMatmul on generics of every iterator list and map      *)
(* list.  SpecBody: isTppMatmul on generics with the matmul iterators and  *)
(* maps and every body.                                                    *)
(***************************************************************************)
MatchMatmul ==
    /\ pc = "start"
    /\ tppMatmul' = isTppMatmul(linalgGeneric)
    /\ matmulBody' = hasMatmulBody(linalgGeneric)
    /\ pc' = "done"
    /\ UNCHANGED <<linalgGeneric, broadcastVars, unaryVars, rewriteVars, extVars>>

InitMatmulCommon ==
    /\ pc = "start"
    /\ tppMatmul = Idle /\ matmulBody = Idle
    /\ map = Idle /\ broadCast = Idle /\ unaryFlag = Idle
    /\ input = Idle /\ output = Idle /\ unaryInfo = Idle
    /\ ops = Idle /\ matched = Idle /\ result = Idle /\ call = Idle
    /\ numCreated = Idle
    /\ ExtIdle

\* Three-operand generics of up to MaxLoops loops, with as many iterators as
\* the maps have dimensions, over the sample bodies.
InitMatmul ==
    /\ \E n \in 2..MaxLoops :
          \E it \in [1..n -> IteratorKinds], mp \in [1..3 -> OperandMaps(n)],
             b \in SampleBodies :
              linalgGeneric = Generic(it, mp, b)
    /\ InitMatmulCommon

\* Generics with the matmul iterators and maps (one per operand) whose body
\* has two or three block arguments, up to MaxBodyOps operations and a yield
\* of one value.
InitBody ==
    /\ \E na \in {2, 3}, n \in 0..MaxBodyOps :
          \E s \in OpSeqs(na, n), y \in ValuesInScope(na, n) :
              linalgGeneric = Generic(<<"parallel", "parallel", "reduction">>,
                                      SubSeq(MatmulMaps, 1, na),
                                      Block(na, s, <<y>>))
    /\ InitMatmulCommon

NextMatmul == MatchMatmul

SpecMatmul == InitMatmul /\ [][NextMatmul]_vars

SpecBody == InitBody /\ [][NextMatmul]_vars

\* C9: isTppMatmul returns true only for an operation with exactly the
\* iterators parallel, parallel, reduction and exactly the maps (i,k), (k,j),
\* (i,j) over (i,j,k), whatever its body.
C9_MatmulIteratorsAndMaps ==
    pc = "done" /\ tppMatmul = TRUE =>
        /\ linalgGeneric.iteratorTypes = <<"parallel", "parallel", "reduction">>
        /\ linalgGeneric.indexingMaps =
               <<[numDims |-> 3, numSymbols |-> 0,
                  results |-> <<DimExpr(0), DimExpr(2)>>],
                 [numDims |-> 3, numSymbols |-> 0,
                  results |-> <<DimExpr(2), DimExpr(1)>>],
                 [numDims |-> 3, numSymbols |-> 0,
                  results |-> <<DimExpr(0), DimExpr(1)>>]>>

\* A matmul body under a transposed first operand map is refused.
C9_Witness ==
    /\ pc = "done"
    /\ linalgGeneric.body = FloatMatmulBody
    /\ linalgGeneric.iteratorTypes = <<"parallel", "parallel", "reduction">>
    /\ linalgGeneric.indexingMaps[1].results = <<DimExpr(2), DimExpr(0)>>
    /\ linalgGeneric.indexingMaps[2] = MatmulMaps[2]
    /\ linalgGeneric.indexingMaps[3] = MatmulMaps[3]
    /\ tppMatmul = FALSE

\* The three body conditions, for the add and the mul of one field.
YieldTracesToAdd(block, addKind) ==
    LET addOp == getSingleOpOfType(block, addKind) IN
    /\ addOp # 0
    /\ Len(block.yield) = 1
    /\ isChainOfUnaryOpsFrom(block, block.yield[1], OpResult(addOp))

AddTracesToCAndMul(block, addKind, mulKind) ==
    LET addOp == getSingleOpOfType(block, addKind)
        mulOp == getSingleOpOfType(block, mulKind) IN
    /\ addOp # 0 /\ mulOp # 0
    /\ LET c1 == block.ops[addOp].operands[1]
           c2 == block.ops[addOp].operands[2]
       IN  \/ /\ isChainOfUnaryOpsFrom(block, c1, BlockArg(2))
              /\ isChainOfUnaryOpsFrom(block, c2, OpResult(mulOp))
           \/ /\ isChainOfUnaryOpsFrom(block, c1, OpResult(mulOp))
              /\ isChainOfUnaryOpsFrom(block, c2, BlockArg(2))

MulTracesToAAndB(block, mulKind) ==
    LET mulOp == getSingleOpOfType(block, mulKind) IN
    /\ mulOp # 0
    /\ LET a == block.ops[mulOp].operands[1]
           b == block.ops[mulOp].operands[2]
       IN  \/ /\ isChainOfUnaryOpsFrom(block, a, BlockArg(0))
              /\ isChainOfUnaryOpsFrom(block, b, BlockArg(1))
           \/ /\ isChainOfUnaryOpsFrom(block, a, BlockArg(1))
              /\ isChainOfUnaryOpsFrom(block, b, BlockArg(0))

AllBodyConditions(block, addKind, mulKind) ==
    /\ YieldTracesToAdd(block, addKind)
    /\ AddTracesToCAndMul(block, addKind, mulKind)
    /\ MulTracesToAAndB(block, mulKind)

\* C10: hasMatmulBody, and with it isTppMatmul, returns true only if the
\* yielded value traces back to the add, the add operands trace back to c and
\* to the mul, and the mul operands trace back to a and b, all three together.
C10_AllThreeBodyConditions ==
    pc = "done" /\ (matmulBody = TRUE \/ tppMatmul = TRUE) =>
        \/ AllBodyConditions(linalgGeneric.body, "arith.addf", "arith.mulf")
        \/ AllBodyConditions(linalgGeneric.body, "arith.addi", "arith.muli")

(***************************************************************************)
(* The skeleton u5(u1(c) + u2(u3(a) * u4(b))) of the comment of isAddMul,  *)
(* built operation by operation: u[i] is the number of single-operand      *)
(* operations of the chain u_i, swapMul and swapAdd exchange the operands  *)
(* of the mul and of the add.                                              *)
(***************************************************************************)
MaxWrap == 2

RECURSIVE wrapUnary(_, _, _, _)
wrapUnary(opSeq, v, n, kind) ==
    IF n = 0 THEN [ops |-> opSeq, val |-> v]
    ELSE wrapUnary(Append(opSeq, [kind |-> kind, operands |-> <<v>>]),
                   OpResult(Len(opSeq) + 1), n - 1, kind)

SkeletonBody(addKind, mulKind, unaryKind, swapMul, swapAdd, u) ==
    LET a3 == wrapUnary(<<>>, BlockArg(0), u[3], unaryKind)
        b4 == wrapUnary(a3.ops, BlockArg(1), u[4], unaryKind)
        mulOps == Append(b4.ops,
                         [kind |-> mulKind,
                          operands |-> IF swapMul THEN <<b4.val, a3.val>>
                                       ELSE <<a3.val, b4.val>>])
        m2 == wrapUnary(mulOps, OpResult(Len(mulOps)), u[2], unaryKind)
        c1 == wrapUnary(m2.ops, BlockArg(2), u[1], unaryKind)
        addOps == Append(c1.ops,
                         [kind |-> addKind,
                          operands |-> IF swapAdd THEN <<m2.val, c1.val>>
                                       ELSE <<c1.val, m2.val>>])
        r5 == wrapUnary(addOps, OpResult(Len(addOps)), u[5], unaryKind)
    IN  Block(3, r5.ops, <<r5.val>>)

\* The fields (AddOpType, MulOpType) hasMatmulBody tries, each with a
\* single-operand operation of the field.
Fields ==
    {[add |-> "arith.addf", mul |-> "arith.mulf", unary |-> "arith.negf"],
     [add |-> "arith.addi", mul |-> "arith.muli", unary |-> "arith.extsi"]}

SkeletonBodies ==
    {SkeletonBody(f.add, f.mul, f.unary, sm, sa, u) :
        f \in Fields, sm \in BOOLEAN, sa \in BOOLEAN,
        u \in [1..5 -> 0..MaxWrap]}

\* Bodies that are no skeleton: a mul of one field under an add of the other,
\* two muls, a mul only.
MixedFieldBody ==
    Block(3, <<[kind |-> "arith.muli", operands |-> <<BlockArg(0), BlockArg(1)>>],
               [kind |-> "arith.addf", operands |-> <<BlockArg(2), OpResult(1)>>]>>,
          <<OpResult(2)>>)
TwoMulBody ==
    Block(3, <<[kind |-> "arith.mulf", operands |-> <<BlockArg(0), BlockArg(1)>>],
               [kind |-> "arith.mulf", operands |-> <<BlockArg(0), OpResult(1)>>],
               [kind |-> "arith.addf", operands |-> <<BlockArg(2), OpResult(2)>>]>>,
          <<OpResult(3)>>)
MulOnlyBody ==
    Block(3, <<[kind |-> "arith.mulf", operands |-> <<BlockArg(0), BlockArg(1)>>]>>,
          <<OpResult(1)>>)
OtherBodies == {MixedFieldBody, TwoMulBody, MulOnlyBody, AddOnlyBody, YieldOnlyBody}

\* SpecSkeleton: hasMatmulBody and isTppMatmul on generics with the matmul
\* iterators and maps whose body is a skeleton or one of the other bodies.
InitSkeleton ==
    /\ \E f \in Fields, sm \in BOOLEAN, sa \in BOOLEAN,
          u \in [1..5 -> 0..MaxWrap], other \in OtherBodies, sk \in BOOLEAN :
          linalgGeneric =
              Generic(<<"parallel", "parallel", "reduction">>, MatmulMaps,
                      IF sk THEN SkeletonBody(f.add, f.mul, f.unary, sm, sa, u)
                      ELSE other)
    /\ InitMatmulCommon

SpecSkeleton == InitSkeleton /\ [][NextMatmul]_vars

\* C11: every body built as a permutation of u5(u1(c) + u2(u3(a) * u4(b))),
\* in either field, with the add operands and the mul operands in either
\* order and any number of unary operations in each chain, has a matmul body
\* (and, under the matmul iterators and maps, is a tpp matmul).
C11_SkeletonAccepted ==
    pc = "done" /\ linalgGeneric.body \in SkeletonBodies =>
        matmulBody = TRUE /\ tppMatmul = TRUE

\* An integer skeleton with both operand pairs exchanged and every chain
\* MaxWrap operations long is accepted, and a body outside the skeleton is
\* refused.
C11_Witness ==
    /\ pc = "done"
    /\ linalgGeneric.body =
           SkeletonBody("arith.addi", "arith.muli", "arith.extsi", TRUE, TRUE,
                        [i \in 1..5 |-> MaxWrap])
    /\ matmulBody = TRUE

(***************************************************************************)
(* Function bodies for the elementwise matchers.  A function body is a     *)
(* list of operations in program order; the value ResultOf(i) is the       *)
(* result of its i-th operation and FuncArg is an argument of the function *)
(* (a value without defining operation).  The operations of a linalg.generic*)
(* body have a result type; a body may use a constant defined in the       *)
(* function.                                                               *)
(***************************************************************************)
ResultOf(i) == [def |-> "result", idx |-> i]
FuncArg == [def |-> "funcarg", idx |-> 0]

Constant(v) == [name |-> "arith.constant", operands |-> <<>>, value |-> v]
Alloc == [name |-> "memref.alloc", operands |-> <<>>]
Fill(cst, out) == [name |-> "linalg.fill", operands |-> <<cst, out>>, numInputs |-> 1]
SubView(source) == [name |-> "memref.subview", operands |-> <<source>>]
MemrefCopy(source, target) == [name |-> "memref.copy", operands |-> <<source, target>>]
LinalgCopy(in, out) == [name |-> "linalg.copy", operands |-> <<in, out>>, numInputs |-> 1]
GenericOp(inputs, outputs, iteratorTypes, indexingMaps, dynamic, tensor, body) ==
    [name |-> "linalg.generic", operands |-> inputs \o outputs,
     numInputs |-> Len(inputs), iteratorTypes |-> iteratorTypes,
     indexingMaps |-> indexingMaps, dynamic |-> dynamic, tensor |-> tensor,
     body |-> body, libraryCall |-> <<>>]

\* v.getDefiningOp(): the position of the operation in the function body, 0
\* (null) for a function argument, a block argument or a value defined in a
\* linalg.generic body.
getDefiningOp(v) == IF v.def = "result" THEN v.idx ELSE 0

\* The uses of the result of operation op, from the last to the first user as
\* getPrevUser expects them; an operation that uses the value twice is listed
\* twice.
RECURSIVE usesIn(_, _, _)
usesIn(operands, v, j) ==
    IF operands = <<>> THEN <<>>
    ELSE (IF operands[Len(operands)] = v THEN <<j>> ELSE <<>>)
             \o usesIn(SubSeq(operands, 1, Len(operands) - 1), v, j)

RECURSIVE users(_, _, _)
users(prog, op, j) ==
    IF j = 0 THEN <<>>
    ELSE usesIn(prog[j].operands, ResultOf(op), j) \o users(prog, op, j - 1)

\* getPrevUser(op, currentUser)
getPrevUser(prog, op, currentUser) ==
    IF op = 0 \/ currentUser = 0 THEN 0
    ELSE LET us == users(prog, op, Len(prog))
             at == {k \in 1..Len(us) : us[k] = currentUser}
         IN  IF at = {} THEN 0
             ELSE LET userIt == CHOOSE k \in at : \A l \in at : k <= l
                      nextUser == userIt + 1
                  IN  IF nextUser <= Len(us) THEN us[nextUser] ELSE 0

\* isValConstZero(val): val is defined by a constant zero, in the function or
\* in the body `block`.
isValConstZero(prog, block, val) ==
    \/ /\ val.def = "result"
       /\ prog[val.idx].name = "arith.constant"
       /\ prog[val.idx].value = 0
    \/ /\ val.def = "op"
       /\ block.ops[val.idx].kind = "arith.constant"
       /\ block.ops[val.idx].value = 0

EmptyBlock == Block(0, <<>>, <<>>)

\* isZeroTensor(Operation *defOp)
RECURSIVE isZeroTensorOp(_, _)
isZeroTensorOp(prog, defOp) ==
    IF defOp = 0 THEN FALSE
    ELSE LET op == prog[defOp] IN
         CASE op.name = "linalg.fill" ->
                  IF op.numInputs = 1
                  THEN isValConstZero(prog, EmptyBlock, op.operands[1])
                  ELSE FALSE
           [] op.name = "linalg.copy" ->
                  /\ op.numInputs = 1
                  /\ \/ isZeroTensorOp(prog, getDefiningOp(op.operands[1]))
                     \/ isZeroTensorOp(prog,
                            getPrevUser(prog, getDefiningOp(op.operands[1]), defOp))
           [] op.name \in {"memref.copy", "memref.subview"} ->
                  \/ isZeroTensorOp(prog, getDefiningOp(op.operands[1]))
                  \/ isZeroTensorOp(prog,
                         getPrevUser(prog, getDefiningOp(op.operands[1]), defOp))
           [] OTHER -> FALSE

\* isZeroTensor(Value op)
isZeroTensor(prog, v) == isZeroTensorOp(prog, getDefiningOp(v))

hasMaxfZeroOpEitherSide(prog, g) ==
    LET genOp == prog[g] IN
    IF genOp.name # "linalg.generic" THEN FALSE
    ELSE \E j \in 1..Len(genOp.body.ops) :
            /\ genOp.body.ops[j].kind = "arith.maxf"
            /\ LET lhs == genOp.body.ops[j].operands[1]
                   rhs == genOp.body.ops[j].operands[2]
               IN  \/ isValConstZero(prog, genOp.body, rhs)
                   \/ isValConstZero(prog, genOp.body, lhs)
                   \/ isZeroTensor(prog, lhs)
                   \/ isZeroTensor(prog, rhs)
                   \/ \E a \in 0..(genOp.body.numArgs - 1) :
                         /\ (BlockArg(a) = lhs \/ BlockArg(a) = rhs)
                         /\ LET argOp == genOp.operands[a + 1] IN
                            \/ isZeroTensor(prog, argOp)
                            \/ isZeroTensorOp(prog,
                                   getPrevUser(prog, getDefiningOp(argOp), g))

\* hasMaxfZeroOp(linalgOp), for the operation at position g of the function.
hasMaxfZeroOp(prog, g) ==
    LET genOp == prog[g] IN
    IF genOp.name # "linalg.generic" THEN FALSE
    ELSE \E j \in 1..Len(genOp.body.ops) :
            /\ genOp.body.ops[j].kind = "arith.maxf"
            /\ LET lhs == genOp.body.ops[j].operands[1]
                   rhs == genOp.body.ops[j].operands[2]
               IN  \/ isValConstZero(prog, genOp.body, rhs)
                   \/ isZeroTensor(prog, lhs)
                   \/ isZeroTensor(prog, rhs)
                   \/ \E a \in 0..(genOp.body.numArgs - 1) :
                         /\ (BlockArg(a) = lhs \/ BlockArg(a) = rhs)
                         /\ LET argOp == genOp.operands[a + 1] IN
                            \/ isZeroTensor(prog, argOp)
                            \/ isZeroTensorOp(prog,
                                   getPrevUser(prog, getDefiningOp(argOp), g))

(***************************************************************************)
(* The matchers of TppUtils.cpp on a linalg.generic.                        *)
(***************************************************************************)
getNumLoops(linalgOp) == Len(linalgOp.iteratorTypes)
getNumParallelLoops(linalgOp) ==
    Cardinality({l \in 1..Len(linalgOp.iteratorTypes) :
                    isParallelIterator(linalgOp.iteratorTypes[l])})
getNumOperands(linalgOp) == Len(linalgOp.operands)
getNumDpsInputs(linalgOp) == linalgOp.numInputs
getNumDpsInits(linalgOp) == Len(linalgOp.operands) - linalgOp.numInputs
hasTensorSemantics(linalgOp) == linalgOp.tensor

\* The number of operations of the only block of the region, the
\* linalg.yield included.
blockSize(block) == Len(block.ops) + 1

isIntOrFloat(type) == type \in {"f32", "i32"}

\* AffineMap::isPermutation
isPermutation(m) ==
    getNumDims(m) = getNumResults(m) /\ isProjectedPermutation(m, FALSE)

\* linalg::isElementwise(op): all loops parallel, every indexing map a
\* projected permutation, every init map a permutation, and a body of scalar
\* elementwise operations (each operation kind of the model is elementwise
\* mappable or a constant).
isElementwise(linalgOp) ==
    /\ getNumLoops(linalgOp) = getNumParallelLoops(linalgOp)
    /\ \A o \in 1..Len(linalgOp.indexingMaps) :
          isProjectedPermutation(linalgOp.indexingMaps[o], FALSE)
    /\ \A o \in (linalgOp.numInputs + 1)..Len(linalgOp.indexingMaps) :
          isPermutation(linalgOp.indexingMaps[o])
    /\ \A j \in 1..Len(linalgOp.body.ops) : isIntOrFloat(linalgOp.body.ops[j].type)

\* hasStaticShape(linalgOp)
hasStaticShape(linalgOp) == ~linalgOp.dynamic

\* hasOnlyYieldOp(region)
hasOnlyYieldOp(block) == blockSize(block) = 1

\* hasCopySemantics(linalgOp)
hasCopySemantics(linalgOp) ==
    IF getNumParallelLoops(linalgOp) # getNumLoops(linalgOp) THEN FALSE
    ELSE IF getNumOperands(linalgOp) # 2 \/ getNumDpsInputs(linalgOp) # 1 THEN FALSE
    ELSE hasOnlyYieldOp(linalgOp.body)

hasOnlyScalarElementwiseOpAnySize(kind, block) ==
    \A j \in 1..Len(block.ops) :
        block.ops[j].kind = kind /\ isIntOrFloat(block.ops[j].type)

\* hasOnlyScalarElementwiseOp<OP>(region): two operations, OP and the yield
\* (which has no result), with int or float results.
hasOnlyScalarElementwiseOp(kind, block) ==
    IF blockSize(block) # 2 THEN FALSE
    ELSE \A j \in 1..Len(block.ops) :
            block.ops[j].kind = kind /\ isIntOrFloat(block.ops[j].type)

\* hasOneInputOneOutput(linalgOp)
hasOneInputOneOutput(linalgOp) ==
    getNumDpsInputs(linalgOp) = 1 /\ getNumDpsInits(linalgOp) = 1

\* canMapToTppAdd(linalgOp)
canMapToTppAdd(linalgOp) ==
    IF ~isElementwise(linalgOp) THEN FALSE
    ELSE IF ~hasStaticShape(linalgOp) \/ ~hasOneInputOneOutput(linalgOp) THEN FALSE
    ELSE hasOnlyScalarElementwiseOp("arith.addf", linalgOp.body)

\* isTppAdd(linalgOp)
isTppAdd(linalgOp) ==
    IF getNumLoops(linalgOp) # getNumParallelLoops(linalgOp) THEN FALSE
    ELSE IF getNumDpsInputs(linalgOp) # 1 \/ getNumDpsInits(linalgOp) # 1 THEN FALSE
    ELSE IF hasTensorSemantics(linalgOp) THEN FALSE
    ELSE hasOnlyScalarElementwiseOp("arith.addf", linalgOp.body)

\* canMapToTppRelu(linalgOp), for the operation at position g of the function.
canMapToTppRelu(prog, g) ==
    IF ~isElementwise(prog[g]) THEN FALSE
    ELSE IF ~hasStaticShape(prog[g]) \/ ~hasMaxfZeroOp(prog, g) THEN FALSE
    ELSE hasOnlyScalarElementwiseOp("arith.maxf", prog[g].body)

\* isTppRelu(linalgOp)
isTppRelu(linalgOp) ==
    IF getNumLoops(linalgOp) # getNumParallelLoops(linalgOp) THEN FALSE
    ELSE IF getNumDpsInputs(linalgOp) # 0 \/ getNumDpsInits(linalgOp) # 1 THEN FALSE
    ELSE IF hasTensorSemantics(linalgOp) THEN FALSE
    ELSE hasOnlyScalarElementwiseOp("arith.maxf", linalgOp.body)

canMapToTppIdentityAnyBody(linalgOp) ==
    IF ~isElementwise(linalgOp) THEN FALSE
    ELSE hasStaticShape(linalgOp)

\* canMapToTppIdentity(linalgOp)
canMapToTppIdentity(linalgOp) ==
    IF ~isElementwise(linalgOp) THEN FALSE
    ELSE hasStaticShape(linalgOp) /\ hasCopySemantics(linalgOp)

\* isTppIdentity(linalgOp)
isTppIdentity(linalgOp) ==
    IF getNumLoops(linalgOp) # getNumParallelLoops(linalgOp) THEN FALSE
    ELSE IF getNumDpsInputs(linalgOp) # 1 \/ getNumDpsInits(linalgOp) # 1 THEN FALSE
    ELSE IF hasTensorSemantics(linalgOp) THEN FALSE
    ELSE hasCopySemantics(linalgOp)

\* What every matcher answers for the operation at position g.
Verdict(prog, g) ==
    [isTppMatmul |-> isTppMatmul(prog[g]),
     hasMatmulBody |-> hasMatmulBody(prog[g]),
     canMapToTppAdd |-> canMapToTppAdd(prog[g]),
     isTppAdd |-> isTppAdd(prog[g]),
     canMapToTppRelu |-> canMapToTppRelu(prog, g),
     hasMaxfZeroOp |-> hasMaxfZeroOp(prog, g),
     isTppRelu |-> isTppRelu(prog[g]),
     canMapToTppIdentity |-> canMapToTppIdentity(prog[g]),
     isTppIdentity |-> isTppIdentity(prog[g])]

(***************************************************************************)
(* SpecMatchers: every matcher on a linalg.generic that follows a fixed    *)
(* preamble (two constants, three buffers, the first of them zero filled). *)
(***************************************************************************)
MaxElemLoops == 2

CstZero == ResultOf(1)
CstOne == ResultOf(2)
BufA == ResultOf(3)
BufB == ResultOf(4)
BufC == ResultOf(5)
Preamble == <<Constant(0), Constant(1), Alloc, Alloc, Alloc, Fill(CstZero, BufA)>>

\* The block with a result type on every operation.
Typed(block) ==
    [block EXCEPT !.ops =
        [j \in 1..Len(block.ops) |->
            [kind |-> block.ops[j].kind, operands |-> block.ops[j].operands,
             type |-> "f32"]]]

ElemKinds == {"arith.maxf", "arith.addf"}
BodyConstant == [kind |-> "arith.constant", operands |-> <<>>, type |-> "f32", value |-> 0]

\* Bodies of zero, one and two operations over the first and the last block
\* argument and the two constants of the function.
ElementwiseBodies(na) ==
    LET first == BlockArg(0)
        last == BlockArg(na - 1)
        vals == {first, last, CstZero, CstOne}
    IN  {Block(na, <<>>, <<y>>) : y \in vals}
        \cup {Block(na, <<[kind |-> k, operands |-> <<x, y>>, type |-> t]>>,
                    <<OpResult(1)>>) :
                 k \in ElemKinds, x \in vals, y \in vals,
                 t \in {"f32", "vector<4xf32>"}}
        \cup {Block(na, <<BodyConstant>>, <<OpResult(1)>>)}
        \cup {Block(na, <<op1, [kind |-> k, operands |-> xy, type |-> "f32"]>>,
                    <<OpResult(2)>>) :
                 op1 \in {BodyConstant} \cup
                         {[kind |-> k1, operands |-> <<first, last>>, type |-> "f32"] :
                             k1 \in ElemKinds},
                 k \in ElemKinds,
                 xy \in {<<OpResult(1), first>>, <<first, OpResult(1)>>}}

IdentityMap(n) ==
    [numDims |-> n, numSymbols |-> 0, results |-> [r \in 1..n |-> DimExpr(r - 1)]]
MinorMap(n) ==
    [numDims |-> n, numSymbols |-> 0, results |-> <<DimExpr(n - 1)>>]

\* One map per operand: all identities, the inputs broadcast, or the inits
\* projected.
ElementwiseMaps(n, ni, no, choice) ==
    [o \in 1..(ni + no) |->
        IF (choice = "broadcastInput" /\ o <= ni) \/ (choice = "projectedInit" /\ o > ni)
        THEN MinorMap(n) ELSE IdentityMap(n)]

ContractionBodies == {FloatMatmulBody, WrappedMatmulBody, TwoMulBody, AddOnlyBody}
ContractionIterators ==
    {<<"parallel", "parallel", "reduction">>, <<"parallel", "parallel", "parallel">>}

\* The matchers are applied to the last operation of the function.
MatchGeneric ==
    /\ pc = "start"
    /\ verdict' = Verdict(func, Len(func))
    /\ pc' = "done"
    /\ UNCHANGED <<func, broadcastVars, unaryVars, rewriteVars, matmulVars, tagVars,
                   packVars, lateVars>>

InitMatchersCommon ==
    /\ pc = "start"
    /\ verdict = Idle
    /\ tagIdle /\ packIdle /\ lateIdle
    /\ map = Idle /\ broadCast = Idle /\ unaryFlag = Idle
    /\ input = Idle /\ output = Idle /\ unaryInfo = Idle
    /\ ops = Idle /\ matched = Idle /\ result = Idle /\ call = Idle
    /\ numCreated = Idle
    /\ linalgGeneric = Idle /\ tppMatmul = Idle /\ matmulBody = Idle

\* Generics of up to MaxElemLoops loops, zero to two inputs and one or two
\* inits, and three-operand generics with the matmul maps.
InitMatchers ==
    /\ \E dyn \in BOOLEAN, tensor \in BOOLEAN :
          \/ \E n \in 1..MaxElemLoops, ni \in 0..2, no \in 1..2 :
                \E it \in [1..n -> IteratorKinds],
                   choice \in {"identity", "broadcastInput", "projectedInit"},
                   body \in ElementwiseBodies(ni + no) :
                    func = Append(Preamble,
                               GenericOp(SubSeq(<<BufA, BufB>>, 1, ni),
                                         SubSeq(<<BufC, BufB>>, 1, no), it,
                                         ElementwiseMaps(n, ni, no, choice),
                                         dyn, tensor, body))
          \/ \E it \in ContractionIterators, body \in ContractionBodies :
                func = Append(Preamble,
                           GenericOp(<<BufA, BufB>>, <<BufC>>, it, MatmulMaps,
                                     dyn, tensor, Typed(body)))
    /\ InitMatchersCommon

NextMatchers == MatchGeneric

SpecMatchers == InitMatchers /\ [][NextMatchers]_vars

\* The linalg.generic the matchers were applied to.
theGeneric == func[Len(func)]

CountKind(block, kind) ==
    Cardinality({j \in 1..Len(block.ops) : block.ops[j].kind = kind})

\* C12: the add and relu matchers accept only a block of exactly two
\* operations (the add or max and the yield), the identity matchers only a
\* block of the yield alone, and the matmul body check only a block with
\* exactly one add and exactly one mul of the matched field.
C12_NoExtraOperations ==
    pc = "done" =>
        /\ (verdict.canMapToTppAdd \/ verdict.isTppAdd
                \/ verdict.canMapToTppRelu \/ verdict.isTppRelu)
              => blockSize(theGeneric.body) = 2
        /\ (verdict.canMapToTppIdentity \/ verdict.isTppIdentity)
              => blockSize(theGeneric.body) = 1
        /\ verdict.hasMatmulBody
              => \E f \in Fields : /\ CountKind(theGeneric.body, f.add) = 1
                                   /\ CountKind(theGeneric.body, f.mul) = 1

\* A static elementwise one-input one-output generic on buffers with two adds
\* before the yield is refused by both add matchers.
C12_Witness ==
    /\ pc = "done"
    /\ blockSize(theGeneric.body) = 3
    /\ CountKind(theGeneric.body, "arith.addf") = 2
    /\ isElementwise(theGeneric) /\ ~theGeneric.dynamic /\ ~theGeneric.tensor
    /\ theGeneric.numInputs = 1 /\ Len(theGeneric.operands) = 2
    /\ ~verdict.canMapToTppAdd /\ ~verdict.isTppAdd

\* C14: no matcher accepts a linalg.generic that has a dynamic extent.
C14_DynamicShapeRefused ==
    pc = "done" /\ theGeneric.dynamic =>
        /\ ~verdict.isTppMatmul
        /\ ~verdict.canMapToTppAdd /\ ~verdict.canMapToTppRelu
        /\ ~verdict.canMapToTppIdentity
        /\ ~verdict.isTppAdd /\ ~verdict.isTppRelu /\ ~verdict.isTppIdentity

\* C15: the identity matchers accept only an operation whose yield-only body
\* yields the block argument of its single input.
C15_IdentityYieldsInput ==
    pc = "done" /\ (verdict.canMapToTppIdentity \/ verdict.isTppIdentity) =>
        /\ blockSize(theGeneric.body) = 1
        /\ theGeneric.body.yield = <<BlockArg(0)>>

\* The value is a block argument whose operand the zero-tensor search
\* accepts: the operand itself or the user of its buffer before the
\* linalg.generic.
tracesToZeroTensor(prog, g, v) ==
    \/ isZeroTensor(prog, v)
    \/ /\ v.def = "arg"
       /\ LET argOp == prog[g].operands[v.idx + 1] IN
          \/ isZeroTensor(prog, argOp)
          \/ isZeroTensorOp(prog, getPrevUser(prog, getDefiningOp(argOp), g))

\* C29: hasMaxfZeroOp is true for a max whose right-hand operand is a zero
\* constant; for a body whose only max has a zero constant as left-hand
\* operand and a right-hand operand that is neither a zero constant nor
\* traced to a zero-filled tensor it is false.
C29_ZeroConstantOnlyOnRhs ==
    pc = "done" =>
        LET body == theGeneric.body
            maxes == {j \in 1..Len(body.ops) : body.ops[j].kind = "arith.maxf"}
        IN  /\ (\E j \in maxes : isValConstZero(func, body, body.ops[j].operands[2]))
                  => verdict.hasMaxfZeroOp
            /\ \A j \in maxes :
                  /\ maxes = {j}
                  /\ isValConstZero(func, body, body.ops[j].operands[1])
                  /\ ~isValConstZero(func, body, body.ops[j].operands[2])
                  /\ ~tracesToZeroTensor(func, Len(func), body.ops[j].operands[2])
                  => ~verdict.hasMaxfZeroOp

\* max(0.0, %out) on a buffer that was not filled: no zero operand found.
C29_Witness ==
    /\ pc = "done"
    /\ Len(theGeneric.body.ops) = 1
    /\ theGeneric.body.ops[1].kind = "arith.maxf"
    /\ theGeneric.body.ops[1].operands = <<CstZero, BlockArg(0)>>
    /\ theGeneric.operands = <<BufC>>
    /\ ~verdict.hasMaxfZeroOp

\* C30: at most one of isTppMatmul, canMapToTppAdd, canMapToTppRelu and
\* canMapToTppIdentity is true of a linalg.generic.
C30_AtMostOnePrimitive ==
    pc = "done" =>
        Cardinality({p \in {"isTppMatmul", "canMapToTppAdd", "canMapToTppRelu",
                            "canMapToTppIdentity"} : verdict[p]}) <= 1

\* A static elementwise add: canMapToTppAdd alone.
C30_Witness ==
    /\ pc = "done"
    /\ verdict.canMapToTppAdd
    /\ ~verdict.isTppMatmul /\ ~verdict.canMapToTppRelu
    /\ ~verdict.canMapToTppIdentity

(***************************************************************************)
(* SpecZero: canMapToTppRelu on a static elementwise max that follows a    *)
(* function body of fills, subviews and copies over two buffers.           *)
(***************************************************************************)
MaxProg == 3

\* Two constants and two buffers.
ZeroPreamble == <<Constant(0), Constant(1), Alloc, Alloc>>

\* The buffer values defined in a function body.
BufferValues(prog) ==
    {ResultOf(i) : i \in {k \in 1..Len(prog) :
                             prog[k].name \in {"memref.alloc", "memref.subview"}}}

isView(prog, v) == v.def = "result" /\ prog[v.idx].name = "memref.subview"

\* The operations that may follow prog: a fill of a buffer or of a view with
\* one of the constants, a subview, and a copy between two buffers or between
\* two views.
FreeOps(prog) ==
    LET bufs == BufferValues(prog)
        pairs == {xy \in bufs \X bufs :
                     xy[1] # xy[2] /\ isView(prog, xy[1]) = isView(prog, xy[2])}
    IN  {Fill(c, v) : c \in {CstZero, CstOne}, v \in bufs}
            \cup {SubView(v) : v \in bufs}
            \cup {MemrefCopy(xy[1], xy[2]) : xy \in pairs}
            \cup {LinalgCopy(xy[1], xy[2]) : xy \in pairs}

RECURSIVE Programs(_)
Programs(k) ==
    IF k = 0 THEN {ZeroPreamble}
    ELSE UNION {{Append(prog, op) : op \in FreeOps(prog)} : prog \in Programs(k - 1)}

\* A one-loop static max on buffers: of two inputs, or of the output and a
\* constant on either side.
MaxOfInputs(x, z, out) ==
    GenericOp(<<x, z>>, <<out>>, <<"parallel">>,
              <<IdentityMap(1), IdentityMap(1), IdentityMap(1)>>, FALSE, FALSE,
              Block(3, <<[kind |-> "arith.maxf",
                          operands |-> <<BlockArg(0), BlockArg(1)>>,
                          type |-> "f32"]>>, <<OpResult(1)>>))
MaxWithConstant(out, cst, cstIsRhs) ==
    GenericOp(<<>>, <<out>>, <<"parallel">>, <<IdentityMap(1)>>, FALSE, FALSE,
              Block(1, <<[kind |-> "arith.maxf",
                          operands |-> IF cstIsRhs THEN <<BlockArg(0), cst>>
                                       ELSE <<cst, BlockArg(0)>>,
                          type |-> "f32"]>>, <<OpResult(1)>>))

MaxGenerics(prog) ==
    LET bufs == BufferValues(prog) IN
    {MaxOfInputs(x, z, IF inPlace THEN z ELSE BufB) :
        x \in bufs \cup {FuncArg}, z \in bufs, inPlace \in BOOLEAN}
        \cup {MaxWithConstant(out, cst, r) : out \in bufs,
                 cst \in {CstZero, CstOne}, r \in BOOLEAN}

InitZero ==
    /\ \E k \in 0..MaxProg : \E prog \in Programs(k) : \E g \in MaxGenerics(prog) :
          func = Append(prog, g)
    /\ InitMatchersCommon

SpecZero == InitZero /\ [][NextMatchers]_vars

(***************************************************************************)
(* What the buffers hold when the function body runs.  A buffer has two     *)
(* parts, a view covers the first part of the buffer it is taken from; a    *)
(* part holds 0 (all zero) or 1 (anything else).                            *)
(***************************************************************************)
RECURSIVE baseOf(_, _)
baseOf(prog, v) ==
    IF isView(prog, v) THEN baseOf(prog, prog[v.idx].operands[1]) ELSE v.idx

regionOf(prog, v) == IF isView(prog, v) THEN {1} ELSE {1, 2}

RECURSIVE contentsAfter(_, _)
contentsAfter(prog, k) ==
    IF k = 0
    THEN [b \in 1..Len(prog) |-> [part \in {1, 2} |-> 1]]
    ELSE LET before == contentsAfter(prog, k - 1)
             op == prog[k]
         IN  CASE op.name = "linalg.fill" ->
                      LET b == baseOf(prog, op.operands[2])
                          c == IF isValConstZero(prog, EmptyBlock, op.operands[1])
                               THEN 0 ELSE 1
                      IN  [before EXCEPT ![b] =
                              [part \in {1, 2} |->
                                  IF part \in regionOf(prog, op.operands[2])
                                  THEN c ELSE before[b][part]]]
               [] op.name \in {"memref.copy", "linalg.copy"} ->
                      LET from == baseOf(prog, op.operands[1])
                          b == baseOf(prog, op.operands[2])
                      IN  [before EXCEPT ![b] =
                              [part \in {1, 2} |->
                                  IF part \in regionOf(prog, op.operands[2])
                                  THEN before[from][part] ELSE before[b][part]]]
               [] OTHER -> before

\* Every part of v holds zero when the operation at position g executes.
allZeroAt(prog, g, v) ==
    /\ v.def = "result"
    /\ \A part \in regionOf(prog, v) :
          contentsAfter(prog, g - 1)[baseOf(prog, v)][part] = 0

\* The max of the body has a literal zero operand, or an operand that is the
\* block argument of a buffer that is all zero.
maxWithZero(prog, g) ==
    \E j \in 1..Len(prog[g].body.ops) :
        /\ prog[g].body.ops[j].kind = "arith.maxf"
        /\ \E o \in 1..2 :
              LET v == prog[g].body.ops[j].operands[o] IN
              \/ isValConstZero(prog, prog[g].body, v)
              \/ /\ v.def = "arg"
                 /\ allZeroAt(prog, g, prog[g].operands[v.idx + 1])

\* C13: canMapToTppRelu returns true only if the max has a literal zero
\* operand or an operand whose buffer is all zero when the operation
\* executes; a buffer overwritten after its zero fill is not accepted.
C13_ReluOnlyOnZero ==
    pc = "done" /\ verdict.canMapToTppRelu => maxWithZero(func, Len(func))

(***************************************************************************)
(* The mapping of linalg.generic to tpp (pass map-linalg-to-tpp, transform  *)
(* operation structured.map_linalg_to_tpp): a detected operation stays a    *)
(* linalg.generic and gets the name of the tpp operation as library_call.   *)
(* A library call name is the list of its parts, "." being a part, so that  *)
(* the prefix hasTppMark cuts off is computed.                              *)
(***************************************************************************)
MaxTagged == 2

Dot == "."

\* libraryCall.find(delimiter): the position of the first delimiter, 0 when
\* there is none (npos).
find(str, delimiter) ==
    LET at == {k \in 1..Len(str) : str[k] = delimiter} IN
    IF at = {} THEN 0 ELSE CHOOSE k \in at : \A l \in at : k <= l

\* libraryCall.substr(0, pos); the whole string when pos is npos.
substr(str, pos) == IF pos = 0 THEN str ELSE SubSeq(str, 1, pos - 1)

getLibraryCallName(op) == op.libraryCall

hasTppMarkWholeName(linalgOp) ==
    IF linalgOp.name # "linalg.generic" THEN FALSE
    ELSE LET libraryCall == getLibraryCallName(linalgOp) IN
         IF libraryCall = <<>> THEN FALSE
         ELSE libraryCall = <<"tpp">>

\* hasTppMark(linalgOp)
hasTppMark(linalgOp) ==
    IF linalgOp.name # "linalg.generic" THEN FALSE
    ELSE LET libraryCall == getLibraryCallName(linalgOp) IN
         IF libraryCall = <<>> THEN FALSE
         ELSE LET prefix == substr(libraryCall, find(libraryCall, Dot))
              IN  prefix = <<"tpp">>

\* isMarkedWithTpp(linalgOp, target)
isMarkedWithTpp(linalgOp, target) ==
    IF ~hasTppMark(linalgOp) THEN FALSE
    ELSE getLibraryCallName(linalgOp) = target

TppName(op) == <<"tpp", Dot, op>>
TppNames == {TppName(op) : op \in {"matmul", "relu", "add", "identity"}}

\* The tpp operation detected for the operation at position i, <<>> when no
\* matcher accepts it; relu and add come before identity.
detected(prog, i) ==
    IF isTppMatmul(prog[i]) THEN TppName("matmul")
    ELSE IF canMapToTppRelu(prog, i) THEN TppName("relu")
    ELSE IF canMapToTppAdd(prog[i]) THEN TppName("add")
    ELSE IF canMapToTppIdentity(prog[i]) THEN TppName("identity")
    ELSE <<>>

setLibraryCallAndDropBody(op, name) ==
    [op EXCEPT !.libraryCall = name, !.body = EmptyBlock]

\* The update of the matched operation: library_call is set.
setLibraryCall(op, name) == [op EXCEPT !.libraryCall = name]

\* The library_call names of a function body, operation by operation.
libraryCalls(prog) ==
    [i \in 1..Len(prog) |->
        IF prog[i].name = "linalg.generic" THEN prog[i].libraryCall ELSE <<>>]

\* The pattern applies to a linalg.generic that is not marked yet and that a
\* matcher accepts.
canMap(prog, i) ==
    /\ prog[i].name = "linalg.generic"
    /\ ~hasTppMark(prog[i])
    /\ detected(prog, i) # <<>>

MapGenericOpToTpp(i) ==
    /\ pc \in {"run1", "run2"}
    /\ canMap(func, i)
    /\ func' = [func EXCEPT ![i] = setLibraryCall(@, detected(func, i))]
    /\ UNCHANGED <<pc, verdict, firstRun, broadcastVars, unaryVars, rewriteVars,
                   matmulVars, packVars, lateVars>>

\* A run of the pass ends when the pattern applies nowhere.
EndOfRun ==
    /\ pc \in {"run1", "run2"}
    /\ \A i \in 1..Len(func) : ~canMap(func, i)
    /\ pc' = IF pc = "run1" THEN "run2" ELSE "done"
    /\ firstRun' = IF pc = "run1" THEN libraryCalls(func) ELSE firstRun
    /\ UNCHANGED <<func, verdict, broadcastVars, unaryVars, rewriteVars, matmulVars,
                   packVars, lateVars>>

\* The operations the pass is run on.
YieldInput(dyn) ==
    GenericOp(<<BufA>>, <<BufC>>, <<"parallel">>, <<IdentityMap(1), IdentityMap(1)>>,
              dyn, TRUE, Block(2, <<>>, <<BlockArg(0)>>))
AddInput(dyn) ==
    GenericOp(<<BufB>>, <<BufC>>, <<"parallel">>, <<IdentityMap(1), IdentityMap(1)>>,
              dyn, TRUE,
              Block(2, <<[kind |-> "arith.addf",
                          operands |-> <<BlockArg(0), BlockArg(1)>>,
                          type |-> "f32"]>>, <<OpResult(1)>>))
MaxZero(cst) ==
    GenericOp(<<>>, <<BufC>>, <<"parallel">>, <<IdentityMap(1)>>, FALSE, TRUE,
              Block(1, <<[kind |-> "arith.maxf", operands |-> <<BlockArg(0), cst>>,
                          type |-> "f32"]>>, <<OpResult(1)>>))
Contraction(it) ==
    GenericOp(<<BufA, BufB>>, <<BufC>>, it, MatmulMaps, FALSE, TRUE,
              Typed(FloatMatmulBody))
TaggedGenerics ==
    {[g EXCEPT !.libraryCall = name] :
        g \in {YieldInput(FALSE), YieldInput(TRUE), AddInput(FALSE), AddInput(TRUE),
               MaxZero(CstZero), MaxZero(CstOne),
               Contraction(<<"parallel", "parallel", "reduction">>),
               Contraction(<<"reduction", "parallel", "parallel">>)},
        name \in {<<>>, TppName("add"), <<"tpp">>, <<"mylib", Dot, "tpp">>}}

InitTag ==
    /\ pc = "run1"
    /\ \E n \in 1..MaxTagged : \E gs \in [1..n -> TaggedGenerics] :
          func = Preamble \o gs
    /\ verdict = Idle
    /\ firstRun = <<>>
    /\ packIdle /\ lateIdle
    /\ map = Idle /\ broadCast = Idle /\ unaryFlag = Idle
    /\ input = Idle /\ output = Idle /\ unaryInfo = Idle
    /\ ops = Idle /\ matched = Idle /\ result = Idle /\ call = Idle
    /\ numCreated = Idle
    /\ linalgGeneric = Idle /\ tppMatmul = Idle /\ matmulBody = Idle

NextTag == (\E i \in 1..Len(func) : MapGenericOpToTpp(i)) \/ EndOfRun

SpecTag == InitTag /\ [][NextTag]_vars

\* The pass is run to its fixpoint: the pattern is applied as long as it
\* applies somewhere.
SpecTagFair == SpecTag /\ WF_vars(NextTag)

\* C16: a step of the mapping leaves every operation as it is, except that a
\* linalg.generic some matcher accepts keeps its operands, maps, iterators
\* and body and gets the name of the detected tpp operation as library_call.
C16_TaggingNonDestructive ==
    [][/\ Len(func') = Len(func)
       /\ \A i \in 1..Len(func) :
             \/ func'[i] = func[i]
             \/ /\ func[i].name = "linalg.generic"
                /\ detected(func, i) # <<>>
                /\ func'[i] = [func[i] EXCEPT !.libraryCall = detected(func, i)]
                /\ func'[i].libraryCall \in TppNames]_vars

\* A function body in which one linalg.generic has been marked tpp.relu and
\* one, that no matcher accepts, still has no mark.
C16_Witness ==
    /\ pc = "done"
    /\ \E i \in 1..Len(func) :
          /\ func[i].name = "linalg.generic"
          /\ isMarkedWithTpp(func[i], TppName("relu"))
          /\ func[i].body = MaxZero(CstZero).body
    /\ \E i \in 1..Len(func) :
          /\ func[i].name = "linalg.generic"
          /\ func[i].libraryCall = <<>>
          /\ detected(func, i) = <<>>

\* C17: the second run of the mapping changes no operation, so that the
\* library_call names stay those of the first run, and the second run ends.
C17_TaggingIdempotent ==
    /\ [][pc = "run2" => func' = func]_vars
    /\ [](pc = "done" => libraryCalls(func) = firstRun)
    /\ <>(pc = "done")

\* The second run has ended on a function body the first run has marked.
C17_Witness ==
    /\ pc = "done"
    /\ firstRun = libraryCalls(func)
    /\ \E i \in 1..Len(func) : firstRun[i] = TppName("identity")

(***************************************************************************)
(* linalgx.pack and linalgx.unpack.  A shape is the list of its extents;   *)
(* inner_dims_pos and outer_dims_perm hold dimension positions from 0.  An *)
(* element of the source is named by its index, so that where every        *)
(* element goes can be read from the packed elements.                      *)
(***************************************************************************)
MaxExtent == 4

ceilDiv(a, b) == (a + b - 1) \div b

\* The position of dimension d in inner_dims_pos, 0 when d is not tiled.
tileOf(innerDimsPos, d) ==
    LET at == {i \in 1..Len(innerDimsPos) : innerDimsPos[i] = d} IN
    IF at = {} THEN 0 ELSE CHOOSE i \in at : TRUE

\* interchange(vec, perm): result[k] = vec[perm[k]]; an empty perm changes
\* nothing.
interchange(vec, perm) ==
    IF perm = <<>> THEN vec ELSE [k \in 1..Len(perm) |-> vec[perm[k] + 1]]

\* The position among the outer dimensions of the packed type that holds
\* source dimension d.
outerPosOf(outerDimsPerm, d) ==
    IF outerDimsPerm = <<>> THEN d + 1
    ELSE CHOOSE k \in 1..Len(outerDimsPerm) : outerDimsPerm[k] = d

getPackedTypeTileByDim(sourceShape, innerTileSizes, innerDimsPos, outerDimsPerm) ==
    LET resultShape ==
            [d \in 1..Len(sourceShape) |->
                IF tileOf(innerDimsPos, d - 1) = 0 THEN sourceShape[d]
                ELSE IF sourceShape[d] = kDynamic THEN kDynamic
                ELSE ceilDiv(sourceShape[d],
                             innerTileSizes[((d - 1) % Len(innerTileSizes)) + 1])]
    IN  interchange(resultShape, outerDimsPerm) \o innerTileSizes

\* PackOp::getPackedType(sourceType, innerTileSizes, innerDimsPos,
\* outerDimsPerm)
getPackedType(sourceShape, innerTileSizes, innerDimsPos, outerDimsPerm) ==
    LET resultShape ==
            [d \in 1..Len(sourceShape) |->
                IF tileOf(innerDimsPos, d - 1) = 0 THEN sourceShape[d]
                ELSE IF sourceShape[d] = kDynamic THEN kDynamic
                ELSE ceilDiv(sourceShape[d],
                             innerTileSizes[tileOf(innerDimsPos, d - 1)])]
    IN  interchange(resultShape, outerDimsPerm) \o innerTileSizes

\* The type unpack gives back for a packed type: the outer dimensions in
\* source order, the tiled ones multiplied by their tile.
getUnPackedType(packedShape, innerTileSizes, innerDimsPos, outerDimsPerm) ==
    LET rank == Len(packedShape) - Len(innerTileSizes) IN
    [d \in 1..rank |->
        LET outer == packedShape[outerPosOf(outerDimsPerm, d - 1)] IN
        IF tileOf(innerDimsPos, d - 1) = 0 THEN outer
        ELSE outer * innerTileSizes[tileOf(innerDimsPos, d - 1)]]

\* The indices of a shape.
RECURSIVE Indices(_)
Indices(shape) ==
    IF shape = <<>> THEN {<<>>}
    ELSE {Append(ix, i) : ix \in Indices(SubSeq(shape, 1, Len(shape) - 1)),
                          i \in 0..(shape[Len(shape)] - 1)}

Element(ix) == [pad |-> FALSE, at |-> ix]
PaddingValue == [pad |-> TRUE, at |-> <<>>]

\* The source index a packed index is loaded from.
sourceIndexOf(op, p) ==
    LET rank == Len(op.shape) IN
    [d \in 1..rank |->
        LET outer == p[outerPosOf(op.outerDimsPerm, d - 1)]
            t == tileOf(op.innerDimsPos, d - 1)
        IN  IF t = 0 THEN outer ELSE outer * op.innerTiles[t] + p[rank + t]]

\* The packed index an index of the unpacked value is loaded from.
packedIndexOf(op, rank, ix) ==
    [k \in 1..(rank + Len(op.innerTiles)) |->
        IF k <= rank
        THEN LET d == IF op.outerDimsPerm = <<>> THEN k - 1 ELSE op.outerDimsPerm[k]
                 t == tileOf(op.innerDimsPos, d)
             IN  IF t = 0 THEN ix[d + 1] ELSE ix[d + 1] \div op.innerTiles[t]
        ELSE ix[op.innerDimsPos[k - rank] + 1] % op.innerTiles[k - rank]]

inBounds(ix, shape) == \A d \in 1..Len(shape) : ix[d] < shape[d]

packElementsLowPad(op, packedShape) ==
    [p \in Indices(packedShape) |->
        LET src == sourceIndexOf(op, p)
            shifted == [d \in 1..Len(src) |->
                           src[d] - (packedShape[outerPosOf(op.outerDimsPerm, d - 1)]
                                       * (IF tileOf(op.innerDimsPos, d - 1) = 0 THEN 1
                                          ELSE op.innerTiles[tileOf(op.innerDimsPos, d - 1)])
                                     - op.shape[d])]
        IN  IF \A d \in 1..Len(src) : shifted[d] >= 0
            THEN Element(shifted) ELSE PaddingValue]

\* PackOp::generateScalarImplementation: one element per point of the packed
\* type, the padding value where the source index is beyond the source.
packElements(op, packedShape) ==
    [p \in Indices(packedShape) |->
        LET src == sourceIndexOf(op, p) IN
        IF inBounds(src, op.shape) THEN Element(src) ELSE PaddingValue]

unPackElementsFirstOfTile(op, data, shape) ==
    [ix \in Indices(shape) |->
        LET p == packedIndexOf(op, Len(shape), ix) IN
        data[[k \in DOMAIN p |-> IF k <= Len(shape) THEN p[k] ELSE 0]]]

\* UnPackOp::generateScalarImplementation: one element per point of the
\* unpacked type.
unPackElements(op, data, shape) ==
    [ix \in Indices(shape) |-> data[packedIndexOf(op, Len(shape), ix)]]

PackOp(shape, innerDimsPos, innerTiles, outerDimsPerm, padding) ==
    [shape |-> shape, innerDimsPos |-> innerDimsPos, innerTiles |-> innerTiles,
     outerDimsPerm |-> outerDimsPerm, padding |-> padding]

\* Without a padding value every tile divides its dimension (anything else
\* is undefined).
fullTiles(op) ==
    \A i \in 1..Len(op.innerDimsPos) :
        op.shape[op.innerDimsPos[i] + 1] % op.innerTiles[i] = 0

\* The sequences of distinct dimensions of a rank, and its permutations.
DimLists(rank) ==
    {l \in UNION {[1..n -> 0..(rank - 1)] : n \in 1..rank} :
        \A i, j \in 1..Len(l) : i # j => l[i] # l[j]}
DimPermutations(rank) == {l \in DimLists(rank) : Len(l) = rank}

InitPackCommon ==
    /\ pc = "start"
    /\ packed = Idle /\ unpacked = Idle
    /\ matcherIdle /\ tagIdle /\ lateIdle
    /\ map = Idle /\ broadCast = Idle /\ unaryFlag = Idle
    /\ input = Idle /\ output = Idle /\ unaryInfo = Idle
    /\ ops = Idle /\ matched = Idle /\ result = Idle /\ call = Idle
    /\ numCreated = Idle
    /\ linalgGeneric = Idle /\ tppMatmul = Idle /\ matmulBody = Idle

packFrame == <<broadcastVars, unaryVars, rewriteVars, matmulVars, matcherVars, tagVars,
               lateVars>>

(***************************************************************************)
(* SpecPackType: the packed type of the shapes of the examples and tests.  *)
(***************************************************************************)
ExampleShapes == {<<128, 256>>, <<13, 15>>, <<256, 512>>, <<64>>, <<kDynamic, 256>>}
ExampleTiles == {2, 8, 32}

InferPackedType ==
    /\ pc = "start"
    /\ packed' = [shape |-> getPackedType(packOp.shape, packOp.innerTiles,
                                          packOp.innerDimsPos, packOp.outerDimsPerm),
                  data |-> <<>>]
    /\ pc' = "done"
    /\ UNCHANGED <<packOp, unpacked, packFrame>>

\* The static tiled dimensions are divided exactly unless the pack has a
\* padding value.
InitPackType ==
    /\ \E shape \in ExampleShapes, padding \in BOOLEAN :
          \E pos \in DimLists(Len(shape)),
             perm \in {<<>>} \cup DimPermutations(Len(shape)) :
              \E tiles \in [1..Len(pos) -> ExampleTiles] :
                  /\ packOp = PackOp(shape, pos, tiles, perm, padding)
                  /\ padding \/ \A i \in 1..Len(pos) :
                                    \/ shape[pos[i] + 1] = kDynamic
                                    \/ shape[pos[i] + 1] % tiles[i] = 0
    /\ InitPackCommon

NextPackType == InferPackedType

SpecPackType == InitPackType /\ [][NextPackType]_vars

\* C18: the packed shape has the source dimensions, each tiled one divided by
\* its tile (exactly without padding value, rounded up with one), permuted by
\* outer_dims_perm, followed by the tiles in the order of inner_dims_pos; and
\* the four shapes of the description and the tests come out as written.
C18_PackedShape ==
    pc = "done" =>
        LET rank == Len(packOp.shape)
            nt == Len(packOp.innerTiles)
        IN
        /\ Len(packed.shape) = rank + nt
        /\ \A i \in 1..nt : packed.shape[rank + i] = packOp.innerTiles[i]
        /\ \A k \in 1..rank :
              LET d == IF packOp.outerDimsPerm = <<>> THEN k
                       ELSE packOp.outerDimsPerm[k] + 1
                  extent == packOp.shape[d]
                  tiledAt == {i \in 1..nt : packOp.innerDimsPos[i] = d - 1}
              IN  \/ tiledAt = {} /\ packed.shape[k] = extent
                  \/ tiledAt # {} /\ extent = kDynamic /\ packed.shape[k] = kDynamic
                  \/ /\ tiledAt # {} /\ extent # kDynamic
                     /\ \E i \in tiledAt :
                           LET t == packOp.innerTiles[i] IN
                           /\ packed.shape[k] * t >= extent
                           /\ (packed.shape[k] - 1) * t < extent
                           /\ ~packOp.padding => packed.shape[k] * t = extent
        /\ packOp = PackOp(<<128, 256>>, <<1, 0>>, <<32, 8>>, <<>>, FALSE)
              => packed.shape = <<16, 8, 32, 8>>
        /\ packOp = PackOp(<<128, 256>>, <<0, 1>>, <<8, 32>>, <<>>, FALSE)
              => packed.shape = <<16, 8, 8, 32>>
        /\ packOp = PackOp(<<128, 256>>, <<0>>, <<2>>, <<>>, FALSE)
              => packed.shape = <<64, 256, 2>>
        /\ packOp = PackOp(<<13, 15>>, <<0, 1>>, <<8, 2>>, <<>>, TRUE)
              => packed.shape = <<2, 8, 8, 2>>

\* The KC_to_KCck example of the description has been packed.
C18_Witness ==
    /\ pc = "done"
    /\ packOp = PackOp(<<128, 256>>, <<1, 0>>, <<32, 8>>, <<>>, FALSE)
    /\ packed.shape = <<16, 8, 32, 8>>

(***************************************************************************)
(* SpecPack: pack followed by unpack with the same descriptor, on sources  *)
(* of rank 1 and 2 with extents up to MaxExtent, element by element.       *)
(***************************************************************************)
SmallTiles == {1, 2, 3}

Pack ==
    /\ pc = "start"
    /\ LET shape == getPackedType(packOp.shape, packOp.innerTiles,
                                  packOp.innerDimsPos, packOp.outerDimsPerm)
       IN  packed' = [shape |-> shape, data |-> packElements(packOp, shape)]
    /\ pc' = "packed"
    /\ UNCHANGED <<packOp, unpacked, packFrame>>

UnPack ==
    /\ pc = "packed"
    /\ LET shape == getUnPackedType(packed.shape, packOp.innerTiles,
                                    packOp.innerDimsPos, packOp.outerDimsPerm)
       IN  unpacked' = [shape |-> shape,
                        data |-> unPackElements(packOp, packed.data, shape)]
    /\ pc' = "done"
    /\ UNCHANGED <<packOp, packed, packFrame>>

InitPack ==
    /\ \E rank \in 1..2, padding \in BOOLEAN :
          \E shape \in [1..rank -> 1..MaxExtent], pos \in DimLists(rank),
             perm \in {<<>>} \cup DimPermutations(rank) :
              \E tiles \in [1..Len(pos) -> SmallTiles] :
                  /\ packOp = PackOp(shape, pos, tiles, perm, padding)
                  /\ padding \/ fullTiles(packOp)
    /\ InitPackCommon

NextPack == Pack \/ UnPack

SpecPack == InitPack /\ [][NextPack]_vars

packedPlaceOf(op, ix) ==
    LET rank == Len(op.shape) IN
    [k \in 1..(rank + Len(op.innerTiles)) |->
        IF k <= rank
        THEN LET d == IF op.outerDimsPerm = <<>> THEN k ELSE op.outerDimsPerm[k] + 1
                 tiledAt == {i \in 1..Len(op.innerTiles) : op.innerDimsPos[i] = d - 1}
             IN  IF tiledAt = {} THEN ix[d]
                 ELSE ix[d] \div op.innerTiles[CHOOSE i \in tiledAt : TRUE]
        ELSE ix[op.innerDimsPos[k - rank] + 1] % op.innerTiles[k - rank]]

\* C20: with a padding value, the element at index i of a dimension tiled by
\* t is at outer coordinate i div t and inner coordinate i mod t, every
\* element of the source is in the packed value exactly once, and every other
\* position, all of them beyond the source on the high side, holds the
\* padding value.
C20_PaddedPack ==
    pc \in {"packed", "done"} /\ packOp.padding =>
        /\ \A ix \in Indices(packOp.shape) :
              /\ packed.data[packedPlaceOf(packOp, ix)] = Element(ix)
              /\ \A p \in DOMAIN packed.data :
                    packed.data[p] = Element(ix) => p = packedPlaceOf(packOp, ix)
        /\ \A p \in DOMAIN packed.data :
              LET src == sourceIndexOf(packOp, p) IN
              /\ \A d \in 1..Len(src) : src[d] >= 0
              /\ (\E d \in 1..Len(src) : src[d] >= packOp.shape[d])
                    <=> packed.data[p] = PaddingValue

\* A 3x3 source packed with tiles 2 and 2 and a padding value: 2x2x2x2, the
\* last row and column of tiles padded.
C20_Witness ==
    /\ pc = "packed"
    /\ packOp = PackOp(<<3, 3>>, <<0, 1>>, <<2, 2>>, <<>>, TRUE)
    /\ packed.shape = <<2, 2, 2, 2>>
    /\ packed.data[<<1, 1, 1, 1>>] = PaddingValue
    /\ packed.data[<<1, 0, 0, 1>>] = Element(<<2, 1>>)

(***************************************************************************)
(* SpecVerify: the verifier of linalgx.pack and linalgx.unpack.  Both      *)
(* operations declare hasVerifier; an operation that fails verification    *)
(* carries a diagnostic and is never lowered.  The descriptor is checked   *)
(* clause by clause, the first failing clause giving the diagnostic: one   *)
(* tile per tiled dimension, every tiled position a dimension of the       *)
(* unpacked type, the length of outer_dims_perm, full static tiles for a   *)
(* pack without padding value, and the declared packed type against        *)
(* getPackedType.  A partial tile that only shows at run time (a dynamic   *)
(* extent, no padding value) is undefined: the lowering may produce        *)
(* anything.                                                               *)
(***************************************************************************)
VerifiedOk == "ok"

\* A pack or unpack as written: shape is the unpacked type (the input of a
\* pack, the output of an unpack), packedShape the declared packed type.
PackOrUnPack(kind, shape, innerDimsPos, innerTiles, outerDimsPerm, padding, packedShape) ==
    [kind |-> kind, shape |-> shape, innerDimsPos |-> innerDimsPos,
     innerTiles |-> innerTiles, outerDimsPerm |-> outerDimsPerm,
     padding |-> padding, packedShape |-> packedShape]

\* Some position is not a dimension of a type of this rank.
isInvalidDims(dimsPos, rank) ==
    \E i \in 1..Len(dimsPos) : dimsPos[i] < 0 \/ dimsPos[i] >= rank

areNotFullTilesBelowTile(shape, innerDimsPos, innerTiles) ==
    \E i \in 1..Len(innerDimsPos) :
        /\ shape[innerDimsPos[i] + 1] # kDynamic
        /\ shape[innerDimsPos[i] + 1] < innerTiles[i]

\* A static tile does not divide the static extent of its dimension.
areNotFullTiles(shape, innerDimsPos, innerTiles) ==
    \E i \in 1..Len(innerDimsPos) :
        /\ shape[innerDimsPos[i] + 1] # kDynamic
        /\ shape[innerDimsPos[i] + 1] % innerTiles[i] # 0

verifyWithoutTypeCheck(op) ==
    LET rank == Len(op.shape) IN
    IF Len(op.innerTiles) # Len(op.innerDimsPos)
    THEN "blocking factors must equal the number of dimensions to block"
    ELSE IF isInvalidDims(op.innerDimsPos, rank)
    THEN "invalid inner_dims_pos vector"
    ELSE IF /\ op.outerDimsPerm # <<>>
            /\ Len(op.outerDimsPerm) # rank - Len(op.innerDimsPos)
    THEN "invalid outer_dims_perm vector"
    ELSE IF /\ op.kind = "pack" /\ ~op.padding
            /\ areNotFullTiles(op.shape, op.innerDimsPos, op.innerTiles)
    THEN "invalid tile factor"
    ELSE VerifiedOk

\* PackOp::verify and UnPackOp::verify
verify(op) ==
    LET rank == Len(op.shape) IN
    IF Len(op.innerTiles) # Len(op.innerDimsPos)
    THEN "blocking factors must equal the number of dimensions to block"
    ELSE IF isInvalidDims(op.innerDimsPos, rank)
    THEN "invalid inner_dims_pos vector"
    ELSE IF /\ op.outerDimsPerm # <<>>
            /\ Len(op.outerDimsPerm) # rank - Len(op.innerDimsPos)
    THEN "invalid outer_dims_perm vector"
    ELSE IF /\ op.kind = "pack" /\ ~op.padding
            /\ areNotFullTiles(op.shape, op.innerDimsPos, op.innerTiles)
    THEN "invalid tile factor"
    ELSE IF op.packedShape # getPackedType(op.shape, op.innerTiles, op.innerDimsPos,
                                           op.outerDimsPerm)
    THEN "packed type does not match the inferred type"
    ELSE VerifiedOk

\* What lowering a verified operation can give.  Without padding value a
\* tiled dimension of dynamic extent may hold a partial tile: undefined.
LoweringOutcomes(op) ==
    IF /\ ~op.padding
       /\ \E i \in 1..Len(op.innerDimsPos) : op.shape[op.innerDimsPos[i] + 1] = kDynamic
    THEN {"lowered", "undefined"}
    ELSE {"lowered"}

verifyFrame == <<unpacked, broadcastVars, unaryVars, rewriteVars, matmulVars,
                 matcherVars, tagVars, driver, handles, stack>>

Verify ==
    /\ pc = "verify"
    /\ verified' = verify(packOp)
    /\ pc' = IF verified' = VerifiedOk THEN "lower" ELSE "done"
    /\ UNCHANGED <<packOp, packed, verifyFrame>>

Lower ==
    /\ pc = "lower"
    /\ verified = VerifiedOk
    /\ \E outcome \in LoweringOutcomes(packOp) : packed' = outcome
    /\ pc' = "done"
    /\ UNCHANGED <<packOp, verified, verifyFrame>>

\* The extents of the verified types: dynamic, or one of the two largest.
VerifyExtents == {kDynamic} \cup ((MaxExtent - 1)..MaxExtent)
VerifyTiles == {2, 3}

\* The packed types an operation is written with: the inferred one where
\* the descriptor allows inferring it, and types that differ from it.
DeclaredTypes(shape, innerDimsPos, innerTiles, outerDimsPerm) ==
    IF Len(innerTiles) = Len(innerDimsPos) /\ ~isInvalidDims(innerDimsPos, Len(shape))
    THEN LET inferred == getPackedType(shape, innerTiles, innerDimsPos, outerDimsPerm)
         IN  {inferred, inferred \o <<1>>, [inferred EXCEPT ![1] = 7]}
    ELSE {shape \o innerTiles}

InitVerify ==
    /\ \E rank \in 1..2, padding \in BOOLEAN, kind \in {"pack", "unpack"} :
          \E shape \in [1..rank -> VerifyExtents], pos \in DimLists(rank + 1),
             perm \in {<<>>} \cup DimLists(rank),
             tiles \in UNION {[1..n -> VerifyTiles] : n \in 1..2} :
              \E declared \in DeclaredTypes(shape, pos, tiles, perm) :
                  /\ Len(pos) <= rank
                  /\ kind = "unpack" => ~padding
                  /\ packOp = PackOrUnPack(kind, shape, pos, tiles, perm, padding, declared)
    /\ pc = "verify"
    /\ verified = "pending"
    /\ packed = Idle /\ unpacked = Idle
    /\ matcherIdle /\ tagIdle
    /\ driver = Idle /\ handles = Idle /\ stack = Idle
    /\ map = Idle /\ broadCast = Idle /\ unaryFlag = Idle
    /\ input = Idle /\ output = Idle /\ unaryInfo = Idle
    /\ ops = Idle /\ matched = Idle /\ result = Idle /\ call = Idle
    /\ numCreated = Idle
    /\ linalgGeneric = Idle /\ tppMatmul = Idle /\ matmulBody = Idle

NextVerify == Verify \/ Lower

SpecVerify == InitVerify /\ [][NextVerify]_vars

\* The clauses of a malformed descriptor, as the claims name them.
lengthMismatch(op) == Len(op.innerDimsPos) # Len(op.innerTiles)
positionOutOfRange(op) ==
    \E i \in 1..Len(op.innerDimsPos) : op.innerDimsPos[i] \notin 0..(Len(op.shape) - 1)
permLengthWrong(op) ==
    /\ op.outerDimsPerm # <<>>
    /\ Len(op.outerDimsPerm) # Len(op.shape) - Len(op.innerDimsPos)
typeDisagrees(op) ==
    /\ ~lengthMismatch(op) /\ ~positionOutOfRange(op)
    /\ op.packedShape # getPackedType(op.shape, op.innerTiles, op.innerDimsPos,
                                      op.outerDimsPerm)
partialStaticTile(op) ==
    /\ ~lengthMismatch(op) /\ ~positionOutOfRange(op)
    /\ \E i \in 1..Len(op.innerDimsPos) :
          LET extent == op.shape[op.innerDimsPos[i] + 1] IN
          extent # kDynamic /\ extent % op.innerTiles[i] # 0

\* C21: once a pack or unpack has been verified, a descriptor whose
\* inner_dims_pos and inner_tiles differ in length, that tiles a position
\* that is no dimension of the source, whose outer_dims_perm is present with
\* a length other than the source rank minus the number of tiled dimensions,
\* or whose declared packed type is not the inferred one, has failed
\* verification; and only an operation that passed verification is lowered.
C21_MalformedRejected ==
    /\ (/\ pc \in {"lower", "done"}
        /\ \/ lengthMismatch(packOp) \/ positionOutOfRange(packOp)
           \/ permLengthWrong(packOp) \/ typeDisagrees(packOp))
       => (verified \notin {VerifiedOk, "pending"} /\ pc = "done" /\ packed = Idle)
    /\ (pc \in {"verify", "lower", "done"} /\ packed # Idle) => verified = VerifiedOk

C21_Witness ==
    /\ pc = "done"
    /\ packOp = PackOrUnPack("unpack", <<4, 3>>, <<1>>, <<3>>, <<>>, FALSE, <<4, 1, 3, 1>>)
    /\ verified = "packed type does not match the inferred type"
    /\ packed = Idle

MaxSchedule == 2

PayloadOps == {"module", "func.f", "func.g", "f.generic", "g.generic"}
HandleIds == {1, 2, 3}

\* The payload operations contained in a target, the target included.
Inside(target) ==
    CASE target = "module" -> PayloadOps
      [] target = "func.f" -> {"func.f", "f.generic"}
      [] target = "func.g" -> {"func.g", "g.generic"}
      [] OTHER -> {target}

IsolatedFromAbove == {"module", "func.f", "func.g"}

\* The schedule operations whose description restricts the target to an
\* operation that is isolated from above.
NeedsIsolatedTarget == {"structured.packing_propagation", "structured.fold_unit_extent_dims"}

\* Dereferencing a handle: its stamp is the generation of its operation.
isValidHandle(state, h) == state.of[h].generation = state.arena[state.of[h].op]

invalidateTargetOnly(state, target) ==
    [o \in PayloadOps |-> IF o = target THEN state.arena[o] + 1 ELSE state.arena[o]]

\* Every payload operation inside the target moves to the next generation.
invalidate(state, target) ==
    [o \in PayloadOps |-> IF o \in Inside(target) THEN state.arena[o] + 1
                          ELSE state.arena[o]]

scheduleFrame == <<packVars, broadcastVars, unaryVars, rewriteVars, matmulVars,
                   matcherVars, tagVars, driver, verified, stack>>

\* applyToOne of a handle-invalidating schedule operation on the payload
\* operation of handle h.
ApplyInvalidating(name, h) ==
    LET target == handles.of[h].op
        refused == \/ ~isValidHandle(handles, h)
                   \/ name \in NeedsIsolatedTarget /\ target \notin IsolatedFromAbove
    IN  /\ handles.steps < MaxSchedule
        /\ handles' =
              IF refused
              THEN [handles EXCEPT !.diagnostics = @ + 1, !.steps = @ + 1,
                                   !.last = [name |-> name, target |-> h]]
              ELSE [handles EXCEPT
                       !.arena = invalidate(handles, target),
                       !.payload = [o \in PayloadOps |->
                                       IF o \in Inside(target) THEN @[o] + 1 ELSE @[o]],
                       !.steps = @ + 1,
                       !.last = [name |-> name, target |-> h]]
        /\ UNCHANGED <<pc, scheduleFrame>>

PackingPropagation ==
    pc = "schedule" /\ \E h \in HandleIds : ApplyInvalidating("structured.packing_propagation", h)

FoldUnitExtentDims ==
    pc = "schedule" /\ \E h \in HandleIds : ApplyInvalidating("structured.fold_unit_extent_dims", h)

Canonicalize ==
    pc = "schedule" /\ \E h \in HandleIds : ApplyInvalidating("structured.canonicalize", h)

MapAndConvertLinalgToTpp ==
    pc = "schedule"
    /\ \E h \in HandleIds : ApplyInvalidating("structured.map_and_convert_linalg_to_tpp", h)

InitSchedule ==
    /\ \E target \in [HandleIds -> PayloadOps] :
          handles = [of |-> [h \in HandleIds |-> [op |-> target[h], generation |-> 0]],
                     arena |-> [o \in PayloadOps |-> 0],
                     payload |-> [o \in PayloadOps |-> 0],
                     diagnostics |-> 0,
                     steps |-> 0,
                     last |-> [name |-> "none", target |-> 0]]
    /\ pc = "schedule"
    /\ packIdle /\ matcherIdle /\ tagIdle
    /\ driver = Idle /\ verified = Idle /\ stack = Idle
    /\ map = Idle /\ broadCast = Idle /\ unaryFlag = Idle
    /\ input = Idle /\ output = Idle /\ unaryInfo = Idle
    /\ ops = Idle /\ matched = Idle /\ result = Idle /\ call = Idle
    /\ numCreated = Idle
    /\ linalgGeneric = Idle /\ tppMatmul = Idle /\ matmulBody = Idle

NextSchedule ==
    PackingPropagation \/ FoldUnitExtentDims \/ Canonicalize \/ MapAndConvertLinalgToTpp

SpecSchedule == InitSchedule /\ [][NextSchedule]_vars

\* C23: a step of the schedule never makes an invalid handle valid again;
\* a step that rewrote its target leaves valid exactly the handles that
\* were valid and refer outside the target; and a step whose target handle
\* was invalid adds a diagnostic and leaves the payload as it was.
C23_HandlesInvalidated ==
    [][pc = "schedule" =>
          LET t == handles'.last.target
              target == handles.of[t].op
          IN  /\ \A h \in HandleIds :
                    ~isValidHandle(handles, h) => ~isValidHandle(handles', h)
              /\ handles'.payload # handles.payload =>
                    /\ isValidHandle(handles, t)
                    /\ \A h \in HandleIds :
                          isValidHandle(handles', h) <=>
                              /\ isValidHandle(handles, h)
                              /\ handles.of[h].op \notin Inside(target)
              /\ ~isValidHandle(handles, t) =>
                    /\ handles'.payload = handles.payload
                    /\ handles'.diagnostics = handles.diagnostics + 1
                    /\ \A h \in HandleIds :
                          isValidHandle(handles', h) <=> isValidHandle(handles, h)]_vars

C23_Witness ==
    /\ pc = "schedule"
    /\ handles.of = <<[op |-> "func.f", generation |-> 0],
                      [op |-> "f.generic", generation |-> 0],
                      [op |-> "g.generic", generation |-> 0]>>
    /\ handles.steps = 2
    /\ handles.last = [name |-> "structured.canonicalize", target |-> 2]
    /\ handles.payload["f.generic"] = 1
    /\ handles.diagnostics = 1
    /\ ~isValidHandle(handles, 1) /\ ~isValidHandle(handles, 2)
    /\ isValidHandle(handles, 3)

(***************************************************************************)
(* SpecXeGPU: the vector-to-XeGPU conversion.  The greedy driver applies   *)
(* TransferReadLowering, TransferWriteLowering and ContractionLowering to  *)
(* the vector operations of a function body.                               *)
(***************************************************************************)
MaxVectorOps == 2

NoVectorOp ==
    [name |-> "", mask |-> FALSE, memref |-> TRUE, vecShape |-> <<>>,
     strides |-> <<>>, map |-> MapIdentity, outOfBounds |-> FALSE,
     zeroPadding |-> TRUE, bits |-> 32, descShape |-> <<>>,
     boundaryCheck |-> FALSE, transpose |-> <<>>]

\* A vector.transfer_read of a 4x8 or 8 vector from a 2-D memref.
TransferRead(mask, strides, permutationMap, outOfBounds, zeroPadding, bits) ==
    [NoVectorOp EXCEPT !.name = "vector.transfer_read", !.mask = mask,
                       !.vecShape = IF Len(permutationMap.results) = 2
                                    THEN <<4, 8>> ELSE <<8>>,
                       !.strides = strides, !.map = permutationMap,
                       !.outOfBounds = outOfBounds,
                       !.zeroPadding = zeroPadding, !.bits = bits]

MapTransposed == Map2(<<DimExpr(1), DimExpr(0)>>)

TransferReads ==
    {TransferRead(FALSE, <<8, 1>>, MapIdentity, FALSE, TRUE, 32),
     TransferRead(FALSE, <<8, 1>>, MapIdentity, FALSE, TRUE, 16),
     TransferRead(TRUE, <<8, 1>>, MapIdentity, FALSE, TRUE, 32),
     TransferRead(FALSE, <<8, 2>>, MapIdentity, FALSE, TRUE, 32),
     TransferRead(FALSE, <<8, 1>>, MapMinor, FALSE, TRUE, 32),
     TransferRead(FALSE, <<8, 1>>, Map2(<<DimExpr(0)>>), FALSE, TRUE, 32),
     TransferRead(FALSE, <<8, 1>>, MapCol, FALSE, TRUE, 32),
     TransferRead(FALSE, <<8, 1>>, MapIdentity, TRUE, TRUE, 32),
     TransferRead(FALSE, <<8, 1>>, MapIdentity, TRUE, FALSE, 32),
     TransferRead(FALSE, <<8, 1>>, MapTransposed, FALSE, TRUE, 32),
     TransferRead(FALSE, <<8, 1>>, MapTransposed, FALSE, TRUE, 16)}

VectorOperations ==
    TransferReads
    \cup {[NoVectorOp EXCEPT !.name = n] :
            n \in {"vector.transfer_write", "vector.contract", "arith.addf"}}

\* transferPreconditions
transferPreconditions(xferOp) ==
    LET vecRank == Len(xferOp.vecShape)
        numInputDims == getNumInputs(xferOp.map)
        results == xferOp.map.results
    IN  /\ ~xferOp.mask
        /\ xferOp.memref
        /\ vecRank \in {1, 2}
        /\ back(xferOp.strides) = 1
        /\ isProjectedPermutation(xferOp.map, FALSE)
        /\ \A i \in (Len(results) - vecRank + 1)..Len(results) :
              i >= 1 => results[i].p >= numInputDims - vecRank

\* AffineMap::isMinorIdentity
isMinorIdentity(m) ==
    /\ getNumDims(m) >= getNumResults(m)
    /\ \A i \in 1..Len(m.results) :
          m.results[i] = DimExpr(getNumDims(m) - getNumResults(m) + (i - 1))

reverse(seq) == [k \in 1..Len(seq) |-> seq[Len(seq) - k + 1]]

\* TransferReadLowering: failure, or the descriptor and the load that
\* replace the read.
TransferReadLowering(readOp) ==
    IF ~transferPreconditions(readOp) THEN Failure
    ELSE IF readOp.outOfBounds /\ ~readOp.zeroPadding THEN Failure
    ELSE LET isTransposeLoad == ~isMinorIdentity(readOp.map) IN
         IF isTransposeLoad /\ readOp.bits < 32 THEN Failure
         ELSE <<[NoVectorOp EXCEPT
                    !.name = "xegpu.create_nd_tdesc", !.bits = readOp.bits,
                    !.descShape = IF isTransposeLoad
                                  THEN reverse(readOp.vecShape)
                                  ELSE readOp.vecShape,
                    !.boundaryCheck = readOp.outOfBounds],
                [NoVectorOp EXCEPT
                    !.name = "xegpu.load_nd", !.bits = readOp.bits,
                    !.vecShape = readOp.vecShape,
                    !.transpose = IF isTransposeLoad THEN <<1, 0>> ELSE <<>>]>>

\* TransferWriteLowering and ContractionLowering: success, nothing created.
TransferWriteLowering(writeOp) == <<writeOp>>
ContractionLowering(contract) == <<contract>>

xeFrame == <<pc, call, numCreated, broadcastVars, unaryVars, matmulVars,
             matcherVars, tagVars, packVars, handles, verified, stack>>

\* The driver takes the operation at the back of the worklist and applies a
\* pattern to it: `replacement` is Failure or the operations in its place.
XeApply(replacement) ==
    LET i == back(driver.worklist)
        rest == SubSeq(driver.worklist, 1, Len(driver.worklist) - 1)
        ok == replacement # Failure
        inserted == ok /\ replacement # <<ops[i]>>
    IN  /\ matched' = i
        /\ result' = IF ok THEN "success" ELSE Failure
        /\ ops' = IF ok
                  THEN SubSeq(ops, 1, i - 1) \o replacement
                           \o SubSeq(ops, i + 1, Len(ops))
                  ELSE ops
        /\ driver' = [driver EXCEPT
                         !.worklist =
                             IF inserted
                             THEN shiftAfter(rest, i, Len(replacement))
                                      \o [k \in 1..Len(replacement) |-> i + k - 1]
                             ELSE rest,
                         !.changed = @ \/ ok]
        /\ UNCHANGED xeFrame

XeTransferReadLowering ==
    /\ pc = "greedy" /\ driver.worklist # <<>>
    /\ ops[back(driver.worklist)].name = "vector.transfer_read"
    /\ XeApply(TransferReadLowering(ops[back(driver.worklist)]))

XeTransferWriteLowering ==
    /\ pc = "greedy" /\ driver.worklist # <<>>
    /\ ops[back(driver.worklist)].name = "vector.transfer_write"
    /\ XeApply(TransferWriteLowering(ops[back(driver.worklist)]))

XeContractionLowering ==
    /\ pc = "greedy" /\ driver.worklist # <<>>
    /\ ops[back(driver.worklist)].name = "vector.contract"
    /\ XeApply(ContractionLowering(ops[back(driver.worklist)]))

XeRootedNames == {"vector.transfer_read", "vector.transfer_write", "vector.contract"}

\* No pattern is rooted at the operation: it leaves the worklist.
XeNoPattern ==
    /\ pc = "greedy" /\ driver.worklist # <<>>
    /\ ops[back(driver.worklist)].name \notin XeRootedNames
    /\ matched' = back(driver.worklist)
    /\ result' = "none"
    /\ driver' = [driver EXCEPT !.worklist = SubSeq(@, 1, Len(@) - 1)]
    /\ UNCHANGED <<ops, xeFrame>>

InitXeGPU ==
    /\ pc = "greedy"
    /\ ops \in UNION {[1..l -> VectorOperations] : l \in 1..MaxVectorOps}
    /\ driver = StartDriver(Len(ops))
    /\ matched = 0
    /\ result = "none"
    /\ call = NoPlan
    /\ numCreated = 0
    /\ map = Idle /\ broadCast = Idle /\ unaryFlag = Idle
    /\ input = Idle /\ output = Idle /\ unaryInfo = Idle
    /\ linalgGeneric = Idle /\ tppMatmul = Idle /\ matmulBody = Idle
    /\ matcherIdle /\ tagIdle /\ packIdle
    /\ handles = Idle /\ verified = Idle /\ stack = Idle

NextXeGPU ==
    \/ XeTransferReadLowering
    \/ XeTransferWriteLowering
    \/ XeContractionLowering
    \/ XeNoPattern
    \/ GreedyIterate
    \/ GreedyReturn

SpecXeGPU == InitXeGPU /\ [][NextXeGPU]_vars

\* The driver is a sequential loop: it keeps taking steps until it returns.
SpecXeGPUFair == SpecXeGPU /\ WF_vars(NextXeGPU)

\* A pattern has been applied in this step and returned success.
XeSucceeded(name) ==
    /\ driver.worklist # <<>>
    /\ driver'.iteration = driver.iteration
    /\ pc' = "greedy"
    /\ ops[back(driver.worklist)].name = name
    /\ result' = "success"

\* C28: every application of the transfer_read, transfer_write or
\* contraction pattern that returns success has replaced or modified the
\* matched operation, and the driver returns converged, with no operation
\* left that a pattern rewrites.
C28_SuccessChangesOperation ==
    /\ [][\A name \in XeRootedNames : XeSucceeded(name) => ops' # ops]_vars
    /\ [](pc = "done" => driver.converged)
    /\ <>(pc = "done")

\* The same for the transfer_read pattern alone, in bodies without
\* transfer_write and contraction.
XeReadOnly ==
    /\ [][XeSucceeded("vector.transfer_read") => ops' # ops]_vars
    /\ [](pc = "done" /\ (\A i \in 1..Len(ops) :
                            ops[i].name \notin {"vector.transfer_write",
                                                "vector.contract"})
             => driver.converged)
    /\ <>(pc = "done")

(***************************************************************************)
(* SpecWalk: isZeroTensor on an operation, call by call.  A frame is      *)
(* a call in progress, at its first (the source) or its second (the        *)
(* previous user) recursive call; the function is pure, so a call on an    *)
(* operation that has a call in progress recurses for ever.                *)
(***************************************************************************)
MaxWalk == 2

\* The operations that may follow prog, copies of a value to itself included.
WalkOps(prog) ==
    FreeOps(prog)
        \cup {MemrefCopy(v, v) : v \in BufferValues(prog)}
        \cup {LinalgCopy(v, v) : v \in BufferValues(prog)}

RECURSIVE WalkPrograms(_)
WalkPrograms(k) ==
    IF k = 0 THEN {ZeroPreamble}
    ELSE UNION {{Append(prog, op) : op \in WalkOps(prog)} :
                   prog \in WalkPrograms(k - 1)}

walkFrame == <<func, broadcastVars, unaryVars, rewriteVars, matmulVars, tagVars,
               packVars, driver, handles, verified>>

inProgress == {stack.frames[k].op : k \in 1..Len(stack.frames)}

\* isZeroTensor(defOp) is entered.
CallIsZeroTensor ==
    /\ pc = "call"
    /\ stack.cur \notin inProgress
    /\ LET defOp == stack.cur IN
       IF defOp = 0
       THEN /\ stack' = [stack EXCEPT !.ret = FALSE]
            /\ pc' = "return"
       ELSE LET op == func[defOp] IN
            CASE op.name = "linalg.fill" ->
                     /\ stack' = [stack EXCEPT !.ret =
                                     IF op.numInputs = 1
                                     THEN isValConstZero(func, EmptyBlock,
                                                         op.operands[1])
                                     ELSE FALSE]
                     /\ pc' = "return"
              [] op.name = "linalg.copy" /\ op.numInputs # 1 ->
                     /\ stack' = [stack EXCEPT !.ret = FALSE]
                     /\ pc' = "return"
              [] op.name \in {"linalg.copy", "memref.copy", "memref.subview"}
                     /\ ~(op.name = "linalg.copy" /\ op.numInputs # 1) ->
                     /\ stack' = [stack EXCEPT
                                     !.frames = Append(@, [op |-> defOp, call |-> 1]),
                                     !.cur = getDefiningOp(op.operands[1])]
                     /\ pc' = "call"
              [] OTHER ->
                     /\ stack' = [stack EXCEPT !.ret = FALSE]
                     /\ pc' = "return"
    /\ UNCHANGED <<verdict, walkFrame>>

\* isZeroTensor(defOp) is entered while a call on defOp is in progress: the
\* same calls follow again, without end.
RecurseForEver ==
    /\ pc = "call"
    /\ stack.cur \in inProgress
    /\ pc' = "overflow"
    /\ UNCHANGED <<stack, verdict, walkFrame>>

\* A call returns: to the call that made it, which returns true, makes its
\* second call or returns what the second call returned; or to the caller
\* of isZeroTensor.
ReturnIsZeroTensor ==
    /\ pc = "return"
    /\ IF stack.frames = <<>>
       THEN /\ verdict' = stack.ret
            /\ pc' = "done"
            /\ UNCHANGED stack
       ELSE LET top == stack.frames[Len(stack.frames)]
                op == func[top.op]
            IN  /\ IF top.call = 1 /\ ~stack.ret
                   THEN /\ stack' = [stack EXCEPT
                                        !.frames[Len(stack.frames)].call = 2,
                                        !.cur = getPrevUser(func,
                                                    getDefiningOp(op.operands[1]),
                                                    top.op)]
                        /\ pc' = "call"
                   ELSE /\ stack' = [stack EXCEPT
                                        !.frames = SubSeq(@, 1, Len(@) - 1)]
                        /\ pc' = "return"
                /\ UNCHANGED verdict
    /\ UNCHANGED walkFrame

InitWalk ==
    /\ \E k \in 0..MaxWalk : \E prog \in WalkPrograms(k) :
          \E defOp \in 0..Len(prog) :
              /\ func = prog
              /\ stack = [start |-> defOp, frames |-> <<>>, cur |-> defOp,
                          ret |-> FALSE]
    /\ pc = "call"
    /\ verdict = FALSE
    /\ tagIdle /\ packIdle
    /\ driver = Idle /\ handles = Idle /\ verified = Idle
    /\ map = Idle /\ broadCast = Idle /\ unaryFlag = Idle
    /\ input = Idle /\ output = Idle /\ unaryInfo = Idle
    /\ ops = Idle /\ matched = Idle /\ result = Idle /\ call = Idle
    /\ numCreated = Idle
    /\ linalgGeneric = Idle /\ tppMatmul = Idle /\ matmulBody = Idle

NextWalk == CallIsZeroTensor \/ RecurseForEver \/ ReturnIsZeroTensor

SpecWalk == InitWalk /\ [][NextWalk]_vars

\* The calls are sequential code: the next step is taken.
SpecWalkFair == SpecWalk /\ WF_vars(NextWalk)

\* The calls return what the recursive definition gives.
WalkIsIsZeroTensor ==
    pc = "done" => verdict = isZeroTensorOp(func, stack.start)

\* C27: isZeroTensor returns for every finite function body: no call is made
\* on an operation that has a call in progress, also when an operation uses
\* the same value twice.
C27_IsZeroTensorReturns ==
    /\ [](pc # "overflow")
    /\ <>(pc = "done")

=============================================================================
